---- MODULE Spec2Model ----
(***************************************************************************)
(* Project grouping and tender/bid linkage layers of llm-leads-insights.   *)
(*                                                                         *)
(* run_group.run() reads the cleaned table and writes it with the columns  *)
(* project_id and tender_round that assign_project_ids computes.           *)
(* run_link.run() reads the grouped table, calls assign_link on it and     *)
(* then build_link_table on the result.  assign_link is modelled step by   *)
(* step: the preparation (copy, row_id, helper columns, sort), one step    *)
(* per iteration of the ordered loop, and the post-pass that relabels the  *)
(* tender rows and drops the helper columns.  The operator assign_link is  *)
(* the same code as a function of the input table.                         *)
(*                                                                         *)
(* Representation.  A table is a sequence of rows, a row is a function     *)
(* from column names to cell values.  Python positions are 0-based, the    *)
(* sequences here are 1-based: the row at position p has index label p-1   *)
(* and row_id "R{p-1}", written <<"R", p-1>>.  A text that the code scans  *)
(* (customer, project name, key) is a sequence of characters, the empty    *)
(* string is <<>>; a text that the code only compares (record_type,        *)
(* link_type) is a string.  Source strings and characters that are not     *)
(* ASCII are written as English glosses.  A project_id is                  *)
(* <<safe_customer, digest>>.  A date cell is <<year, month, day>>.  A     *)
(* missing cell is NaN.  A table has the default RangeIndex of read_csv.   *)
(***************************************************************************)
EXTENDS Integers, Sequences, FiniteSets, TLC

VARIABLES
    pc,                     \* position of run_group.run() / run_link.run()
    cleaned_df,             \* the table run_group.run() reads
    grouped_df,             \* the table run_group.run() writes
    caller_df,              \* the table run() reads and passes to assign_link
    df,                     \* assign_link's local table (df = df.copy())
    order,                  \* the sorted index list, as positions
    pos,                    \* number of entries of order already processed
    link_type,              \* local list link_type
    related_tender_id,      \* local list related_tender_id
    related_bid_id,         \* local list related_bid_id
    last_tender_by_project, \* dict project_id -> row_id or None
    tender_has_bid,         \* set of tender row_ids with at least one bid
    result,                 \* the table assign_link returns
    link_table,             \* the table build_link_table returns
    build,                  \* the locals of _build_customer_core_to_project_id
    scorer,                 \* the cache that calls of _similarity share
    pipeline                \* run_pipeline: its position and the files on disk

vars == <<pc, cleaned_df, grouped_df, caller_df, df, order, pos, link_type, related_tender_id,
          related_bid_id, last_tender_by_project, tender_has_bid, result,
          link_table, build, scorer, pipeline>>

---------------------------------------------------------------------------
(* Bounds of the model *)

\* Rows of an input table whose records all belong to one project.
MaxRows == 4

\* Rows of an input table of dated records of two projects.
MaxRowsTwoProjects == 3

\* Rows of an input table of two projects with every kind of sort key.
MaxRowsMixedKeys == 2

\* Rows of a cleaned table.
MaxCleanedRows == 3

\* Rows of a list of (customer, key) pairs, at most.
MaxPairs == 3

\* Calls of _similarity that share one cache, at most.
MaxSimilarityCalls == 2

---------------------------------------------------------------------------
(* Vocabulary *)

TENDER_RECORD_TYPES ==
    {"tender_notice", "procurement_notice", "competitive_negotiation",
     "competitive_consultation", "inquiry"}

BID_RECORD_TYPES ==
    {"award_notice", "award_candidate_notice", "deal_result", "deal_notice",
     "result_notice"}

DEFAULT_RECORD_TYPE == "other"

is_tender(record_type) == record_type \in TENDER_RECORD_TYPES

is_bid(record_type) == record_type \in BID_RECORD_TYPES

LT_LINKED == "linked"

LT_TENDER_ONLY == "tender-only"

LT_BID_ONLY == "bid-only"

LT_OTHER == "other"

EmptyStr == <<>>

None == <<"None">>

HelperColumns == {"_sort_date", "_tender_round", "_is_tender", "_is_bid"}

LinkColumns == {"row_id", "link_type", "related_tender_id", "related_bid_id"}

---------------------------------------------------------------------------
(* Cells and rows *)

NaT == <<>>

DaysInMonth(y, m) ==
    IF m = 2 THEN (IF y % 4 = 0 /\ (y % 100 # 0 \/ y % 400 = 0) THEN 29 ELSE 28)
    ELSE IF m \in {4, 6, 9, 11} THEN 30 ELSE 31

\* pd.to_datetime(cell, errors="coerce"): a timestamp for a well-formed date,
\* NaT for a missing or unparseable cell.  A timestamp is <<ordinal>>.
to_datetime(cell) ==
    IF /\ Len(cell) = 3
       /\ cell[2] \in 1..12
       /\ cell[3] \in 1..DaysInMonth(cell[1], cell[2])
    THEN <<(cell[1] * 12 + cell[2]) * 31 + cell[3]>>
    ELSE NaT

SetCol(row, c, v) == (c :> v) @@ row

DropCols(row, cs) == [c \in (DOMAIN row) \ cs |-> row[c]]

RowId(i) == <<"R", i>>

Range(s) == {s[p] : p \in 1..Len(s)}

\* d.get(key, default)
DictGet(d, key, default) == IF key \in DOMAIN d THEN d[key] ELSE default

---------------------------------------------------------------------------
(* Text *)

\* A cell that is missing in a table read by read_csv.
NaN == <<"NaN">>

Digits == {"0", "1", "2", "3", "4", "5", "6", "7", "8", "9"}

DigitSeq == <<"0", "1", "2", "3", "4", "5", "6", "7", "8", "9">>

UppercaseSeq ==
    <<"A", "B", "C", "D", "E", "F", "G", "H", "I", "J", "K", "L", "M",
      "N", "O", "P", "Q", "R", "S", "T", "U", "V", "W", "X", "Y", "Z">>

LowercaseSeq ==
    <<"a", "b", "c", "d", "e", "f", "g", "h", "i", "j", "k", "l", "m",
      "n", "o", "p", "q", "r", "s", "t", "u", "v", "w", "x", "y", "z">>

AsciiLetters == Range(UppercaseSeq) \cup Range(LowercaseSeq)

Whitespace == {" ", "\t", "\n"}

\* The Chinese numerals of the round patterns, with their code points.
CnNumeralCode ==
    [c \in {"<one>", "<two>", "<three>", "<four>", "<five>", "<six>",
            "<seven>", "<eight>", "<nine>", "<ten>"} |->
        CASE c = "<one>" -> 19968 [] c = "<two>" -> 20108
          [] c = "<three>" -> 19977 [] c = "<four>" -> 22235
          [] c = "<five>" -> 20116 [] c = "<six>" -> 20845
          [] c = "<seven>" -> 19971 [] c = "<eight>" -> 20843
          [] c = "<nine>" -> 20061 [] c = "<ten>" -> 21313]

CnNumerals == DOMAIN CnNumeralCode

\* The characters 'time', 'batch', 'phase' that end a round marker.
RoundUnits == {"<time>", "<batch>", "<phase>"}

IndexOf(s, c) == CHOOSE i \in 1..Len(s) : s[i] = c

\* ord(c) for the characters of the model.
CodePoint(c) ==
    IF c \in Digits THEN 47 + IndexOf(DigitSeq, c)
    ELSE IF c \in Range(UppercaseSeq) THEN 64 + IndexOf(UppercaseSeq, c)
    ELSE IF c \in Range(LowercaseSeq) THEN 96 + IndexOf(LowercaseSeq, c)
    ELSE IF c \in CnNumerals THEN CnNumeralCode[c]
    ELSE CASE c = "\t" -> 9 [] c = "\n" -> 10 [] c = " " -> 32
           [] c = "(" -> 40 [] c = ")" -> 41 [] c = "-" -> 45
           [] c = ":" -> 58 [] c = "_" -> 95
           [] c = "<batch>" -> 25209 [] c = "<phase>" -> 26399
           [] c = "<time>" -> 27425 [] c = "<hundred>" -> 30334
           [] c = "<ordinal>" -> 31532
           [] c = "<fullwidth (>" -> 65288 [] c = "<fullwidth )>" -> 65289
           [] c = "<fullwidth :>" -> 65306

Min(a, b) == IF a <= b THEN a ELSE b

Max(a, b) == IF a >= b THEN a ELSE b

\* s[:n]
Take(s, n) == SubSeq(s, 1, Min(n, Len(s)))

\* s[n:]
Drop(s, n) == SubSeq(s, n + 1, Len(s))

\* s.strip()
Strip(s) ==
    LET keep == {i \in 1..Len(s) : s[i] \notin Whitespace}
    IN  IF keep = {} THEN <<>>
        ELSE SubSeq(s, CHOOSE i \in keep : \A j \in keep : i <= j,
                       CHOOSE i \in keep : \A j \in keep : j <= i)

\* s.startswith(p)
StartsWith(s, p) == Len(p) <= Len(s) /\ SubSeq(s, 1, Len(p)) = p

\* a in b
IsSubstring(a, b) ==
    \E i \in 1..(Len(b) - Len(a) + 1) : SubSeq(b, i, i + Len(a) - 1) = a

\* The length of the longest run of characters of cls that starts at s[i].
RunLen(s, i, cls) ==
    LET ends == {j \in i..(Len(s) + 1) : \A k \in i..(j - 1) : s[k] \in cls}
    IN  (CHOOSE j \in ends : \A k \in ends : k <= j) - i

\* Python's order of two strings.
LexLess(a, b) ==
    LET diff == {i \in 1..Min(Len(a), Len(b)) : a[i] # b[i]}
    IN  IF diff = {} THEN Len(a) < Len(b)
        ELSE LET i == CHOOSE i \in diff : \A j \in diff : i <= j
             IN  CodePoint(a[i]) < CodePoint(b[i])

\* The positions of a set, ascending.
SortedPositions(S) ==
    LET ps == S
    IN  [r \in 1..Cardinality(ps) |->
            CHOOSE i \in ps : Cardinality({j \in ps : j <= i}) = r]

\* list(dict.fromkeys(s)): the first occurrences, in order.
Dedupe(s) ==
    LET listed == s
        first == SortedPositions({i \in 1..Len(listed) :
                                    \A j \in 1..(i - 1) : listed[j] # listed[i]})
    IN  [r \in 1..Len(first) |-> listed[first[r]]]

\* Series.fillna("").astype(str) on a text cell.
FillNaStr(cell) == IF cell = NaN THEN <<>> ELSE cell

---------------------------------------------------------------------------
(* tender_group: canonical key and tender round *)

\* The length of the match of PROJECT_CODE_PATTERN at the start of s, 0 when
\* it does not match: four digits, an optional hyphen, letters, an optional
\* hyphen, digits, then any colons and whitespace.  The character classes
\* are disjoint, so the greedy match is the only one.
PROJECT_CODE_PATTERN(s) ==
    IF ~(Len(s) >= 4 /\ \A k \in 1..4 : s[k] \in Digits) THEN 0
    ELSE LET p2 == IF Len(s) >= 5 /\ s[5] = "-" THEN 6 ELSE 5
             letters == RunLen(s, p2, AsciiLetters)
             p3 == p2 + letters
             p4 == IF p3 <= Len(s) /\ s[p3] = "-" THEN p3 + 1 ELSE p3
             digits == RunLen(s, p4, Digits)
             p5 == p4 + digits
             tail == RunLen(s, p5, {"<fullwidth :>", ":"} \cup Whitespace)
         IN  IF letters = 0 \/ digits = 0 THEN 0 ELSE p5 + tail - 1

\* re.sub of the two full-width brackets.
HalfWidthBrackets(s) ==
    [i \in 1..Len(s) |->
        IF s[i] = "<fullwidth (>" THEN "("
        ELSE IF s[i] = "<fullwidth )>" THEN ")" ELSE s[i]]

\* re.sub(r"\s+", " ", s)
CollapseWhitespace(s) ==
    LET F[i \in 0..Len(s)] ==
            IF i = 0 THEN <<>>
            ELSE LET prev == F[i - 1]
                 IN  IF s[i] \notin Whitespace THEN Append(prev, s[i])
                     ELSE IF i > 1 /\ s[i - 1] \in Whitespace THEN prev
                     ELSE Append(prev, " ")
    IN  F[Len(s)]

CORE_MAX_LEN == 200

canonical_core_for_grouping(customer, project_name_core) ==
    IF project_name_core = <<>> THEN <<>>
    ELSE LET s1 == Strip(project_name_core)
             s2 == Strip(Drop(s1, PROJECT_CODE_PATTERN(s1)))
             s3 == IF customer # <<>> /\ StartsWith(s2, customer)
                   THEN Strip(Drop(s2, Len(customer)))
                   ELSE s2
             s4 == Strip(CollapseWhitespace(HalfWidthBrackets(s3)))
         IN  Take(s4, CORE_MAX_LEN)

\* int(s) for a string of digits.
DecimalValue(s) ==
    LET F[i \in 0..Len(s)] ==
            IF i = 0 THEN 0 ELSE F[i - 1] * 10 + (IndexOf(DigitSeq, s[i]) - 1)
    IN  F[Len(s)]

CN_NUM ==
    (<<"<one>">> :> 1) @@ (<<"<two>">> :> 2) @@ (<<"<three>">> :> 3)
    @@ (<<"<four>">> :> 4) @@ (<<"<five>">> :> 5) @@ (<<"<six>">> :> 6)
    @@ (<<"<seven>">> :> 7) @@ (<<"<eight>">> :> 8) @@ (<<"<nine>">> :> 9)
    @@ (<<"<ten>">> :> 10) @@ (<<"<hundred>">> :> 100)
    @@ (<<"<ten>", "<one>">> :> 11) @@ (<<"<ten>", "<two>">> :> 12)
    @@ (<<"<ten>", "<three>">> :> 13) @@ (<<"<ten>", "<four>">> :> 14)
    @@ (<<"<ten>", "<five>">> :> 15) @@ (<<"<ten>", "<six>">> :> 16)
    @@ (<<"<ten>", "<seven>">> :> 17) @@ (<<"<ten>", "<eight>">> :> 18)
    @@ (<<"<ten>", "<nine>">> :> 19) @@ (<<"<two>", "<ten>">> :> 20)
    @@ (<<"<three>", "<ten>">> :> 30) @@ (<<"<four>", "<ten>">> :> 40)
    @@ (<<"<five>", "<ten>">> :> 50)

cn_to_int(text) ==
    LET s == Strip(text)
    IN  IF s = <<>> THEN 1
        ELSE IF \A i \in 1..Len(s) : s[i] \in Digits
             THEN Max(1, DecimalValue(s))
        ELSE IF s \in DOMAIN CN_NUM THEN CN_NUM[s]
        ELSE IF Len(s) = 2 /\ <<s[1]>> \in DOMAIN CN_NUM /\ s[2] = "<ten>"
             THEN CN_NUM[<<s[1]>>] * 10
        ELSE IF Len(s) = 2 /\ s[1] = "<ten>" /\ <<s[2]>> \in DOMAIN CN_NUM
             THEN 10 + CN_NUM[<<s[2]>>]
        ELSE 1

NoMatch == <<"no match">>

\* The group captured by pattern k of TENDER_ROUND_PATTERNS when it matches
\* at position i of s, NoMatch when it does not.
RoundPatternAt(k, s, i) ==
    LET cls == IF k = 3 THEN CnNumerals ELSE CnNumerals \cup Digits
        from == IF k = 3 THEN i
                ELSE IF k = 2 THEN i + 1
                ELSE IF i < Len(s) /\ s[i + 1] = "<ordinal>" THEN i + 2
                ELSE i + 1
        head == CASE k = 1 -> s[i] \in {"<fullwidth (>", "("}
                  [] k = 2 -> s[i] = "<ordinal>"
                  [] k = 3 -> TRUE
        run == RunLen(s, from, cls)
        unit == from + run
    IN  IF /\ head
           /\ run >= 1
           /\ unit <= Len(s)
           /\ s[unit] \in RoundUnits
           /\ k = 1 => (unit < Len(s) /\ s[unit + 1] \in {"<fullwidth )>", ")"})
        THEN SubSeq(s, from, unit - 1)
        ELSE NoMatch

\* pat.search(s): the group of the leftmost match.
TENDER_ROUND_PATTERNS(k, s) ==
    LET hits == {i \in 1..Len(s) : RoundPatternAt(k, s, i) # NoMatch}
    IN  IF hits = {} THEN NoMatch
        ELSE RoundPatternAt(k, s, CHOOSE i \in hits : \A j \in hits : i <= j)

parse_tender_round(project_name) ==
    IF project_name = <<>> THEN 1
    ELSE LET s == Strip(project_name)
             hits == {k \in 1..3 : TENDER_ROUND_PATTERNS(k, s) # NoMatch}
         IN  IF hits = {} THEN 1
             ELSE Max(1, cn_to_int(TENDER_ROUND_PATTERNS(
                             CHOOSE k \in hits : \A j \in hits : k <= j, s)))

\* hashlib.md5(key).hexdigest()[:12], taken as an injective function of key.
md5_hexdigest(key) == <<"md5", key>>

\* A project_id whose digest is of the key alone.
make_project_id_of_key(customer, project_name_core) ==
    LET h == md5_hexdigest(project_name_core)
        safe_customer ==
            Take([i \in 1..Len(customer) |->
                    IF \/ customer[i] \in AsciiLetters \cup Digits
                       \/ CodePoint(customer[i]) \in 19968..40869
                    THEN customer[i] ELSE "_"], 40)
    IN  <<safe_customer, h>>

make_project_id(customer, project_name_core) ==
    LET key == customer \o <<"\n">> \o project_name_core
        h == md5_hexdigest(key)
        safe_customer ==
            Take([i \in 1..Len(customer) |->
                    IF \/ customer[i] \in AsciiLetters \cup Digits
                       \/ CodePoint(customer[i]) \in 19968..40869
                    THEN customer[i] ELSE "_"], 40)
    IN  <<safe_customer, h>>

\* Python's order of two project_id strings f"{safe_customer}_{h}"; the
\* digests are ordered as their keys are.
ProjectIdLess(a, b) ==
    IF a[1] # b[1] THEN LexLess(a[1] \o <<"_">>, b[1] \o <<"_">>)
    ELSE LexLess(a[2][2], b[2][2])

---------------------------------------------------------------------------
(* tender_group: similarity and clustering *)

\* The value of build and of scorer while the code they model is not running.
Idle == [pc |-> "idle"]

\* A ratio is <<numerator, denominator>>.
SIMILARITY_THRESHOLD == <<88, 100>>

PREFIX_BUCKET_LEN == 8

MIN_LENGTH_RATIO == <<1, 2>>

MAX_BUCKET_SIZE_FOR_SIMILARITY == 80

SIM_CACHE_CAP == 50000

RatioLess(x, y) == x[1] * y[2] < y[1] * x[2]

\* SequenceMatcher.find_longest_match on a[alo..ahi] and b[blo..bhi]: the
\* longest common block, the earliest in a and then the earliest in b.
find_longest_match(a, b, alo, ahi, blo, bhi) ==
    LET common == [i \in alo..ahi, j \in blo..bhi |->
                      LET ks == {k \in 0..Min(ahi - i + 1, bhi - j + 1) :
                                    \A t \in 0..(k - 1) : a[i + t] = b[j + t]}
                      IN  CHOOSE k \in ks : \A m \in ks : m <= k]
        sizes == {common[i, j] : i \in alo..ahi, j \in blo..bhi}
        k == CHOOSE x \in sizes : \A y \in sizes : y <= x
        is == {i \in alo..ahi : \E j \in blo..bhi : common[i, j] = k}
        i == CHOOSE x \in is : \A y \in is : x <= y
        js == {j \in blo..bhi : common[i, j] = k}
        j == CHOOSE x \in js : \A y \in js : x <= y
    IN  <<i, j, k>>

RECURSIVE matching_size(_, _, _, _, _, _)

\* The size of the block found and of the blocks to its left and right.
MatchAndRest(a, b, alo, ahi, blo, bhi, found) ==
    LET m == found
    IN  IF m[3] = 0 THEN 0
        ELSE m[3] + matching_size(a, b, alo, m[1] - 1, blo, m[2] - 1)
                  + matching_size(a, b, m[1] + m[3], ahi, m[2] + m[3], bhi)

\* The total size of SequenceMatcher.get_matching_blocks.
matching_size(a, b, alo, ahi, blo, bhi) ==
    IF alo > ahi \/ blo > bhi THEN 0
    ELSE MatchAndRest(a, b, alo, ahi, blo, bhi,
                      find_longest_match(a, b, alo, ahi, blo, bhi))

\* SequenceMatcher(None, a, b).ratio() for keys shorter than the 200
\* characters at which difflib starts to discard popular characters.
SequenceMatcher_ratio(a, b) ==
    <<2 * matching_size(a, b, 1, Len(a), 1, Len(b)), Len(a) + Len(b)>>

\* The entries of the cache under pairs of keys that no call made here
\* looks up: a cache of the scorer is the function of its other entries and
\* this number.
OtherEntries == IF scorer.pc = "ready" THEN scorer.others ELSE 0

\* len(_cache)
CacheLen(cache) == Cardinality(DOMAIN cache) + OtherEntries

\* A cache that takes one entry more than the cap.
StoreAndReturn_cap_inclusive(cache, key, value) ==
    LET r == value
    IN  [r |-> r,
         cache |-> IF CacheLen(cache) <= SIM_CACHE_CAP
                   THEN (key :> r) @@ cache
                   ELSE cache]

\* Lines 108-110: the value is stored unless the cache is full.
StoreAndReturn(cache, key, value) ==
    LET r == value
    IN  [r |-> r,
         cache |-> IF CacheLen(cache) < SIM_CACHE_CAP
                   THEN (key :> r) @@ cache
                   ELSE cache]

\* A scorer without the length filter.
similarity_unfiltered(a0, b0, cache) ==
    IF a0 = <<>> \/ b0 = <<>> THEN [r |-> <<0, 1>>, cache |-> cache]
    ELSE LET a == IF Len(a0) > Len(b0) THEN b0 ELSE a0
             b == IF Len(a0) > Len(b0) THEN a0 ELSE b0
             key == <<a, b>>
         IN  IF key \in DOMAIN cache
             THEN [r |-> cache[key], cache |-> cache]
             ELSE StoreAndReturn(cache, key,
                      IF /\ IsSubstring(a, b)
                         /\ ~RatioLess(<<Len(a), Len(b)>>, <<8, 10>>)
                      THEN <<9, 10>>
                      ELSE SequenceMatcher_ratio(a, b))

\* _similarity(a, b, _cache): the value returned and the cache after the call.
similarity(a0, b0, cache) ==
    IF a0 = <<>> \/ b0 = <<>> THEN [r |-> <<0, 1>>, cache |-> cache]
    ELSE LET a == IF Len(a0) > Len(b0) THEN b0 ELSE a0
             b == IF Len(a0) > Len(b0) THEN a0 ELSE b0
             key == <<a, b>>
         IN  IF RatioLess(<<Len(a), Len(b)>>, MIN_LENGTH_RATIO)
             THEN [r |-> <<0, 1>>, cache |-> cache]
             ELSE IF key \in DOMAIN cache
             THEN [r |-> cache[key], cache |-> cache]
             ELSE StoreAndReturn(cache, key,
                      IF /\ IsSubstring(a, b)
                         /\ ~RatioLess(<<Len(a), Len(b)>>, <<8, 10>>)
                      THEN <<9, 10>>
                      ELSE SequenceMatcher_ratio(a, b))

RECURSIVE set_slot(_, _, _, _)

\* A cluster's members are a Python set of positions of unique_cores.  The
\* code iterates over such a set at line 186, so the set is modelled as the
\* hash table CPython keeps: [table, fill], where table[s + 1] is the
\* member in slot s, or 0 for a free slot, and a member at position p (index
\* p - 1 in Python) has the hash p - 1.  set_slot is the probe sequence of
\* set_add_entry: the slot of the key, or the free slot where it goes; up to
\* 9 slots are probed linearly when they fit before the end of the table,
\* and the next probe is perturbed by the hash shifted by 5 bits.
set_slot(table, key, i, perturb) ==
    LET mask == Len(table) - 1
        probes == IF i + 9 <= mask THEN 9 ELSE 0
        found == {s \in i..(i + probes) : table[s + 1] \in {0, key}}
    IN  IF found # {} THEN CHOOSE s \in found : \A t \in found : s <= t
        ELSE set_slot(table, key, (i * 5 + 1 + (perturb \div 32)) % (mask + 1),
                      perturb \div 32)

\* The members in the order of iteration: the order of the slots.
set_iter(so) ==
    LET table == so.table
        used == {s \in 1..Len(table) : table[s] # 0}
    IN  [r \in 1..Cardinality(used) |->
            table[CHOOSE s \in used : Cardinality({t \in used : t <= s}) = r]]

Members(so) ==
    LET table == so.table IN {table[s] : s \in 1..Len(table)} \ {0}

RECURSIVE set_table_size(_, _)

\* The smallest power of two over minused, 8 at least.
set_table_size(newsize, minused) ==
    IF newsize <= minused THEN set_table_size(2 * newsize, minused) ELSE newsize

\* set_insert_clean: the key goes to the free slot of its probe sequence.
set_insert_clean(table, key) ==
    LET t == table
    IN  [t EXCEPT ![set_slot(t, key, (key - 1) % Len(t), key - 1) + 1] = key]

RECURSIVE set_insert_from(_, _, _)

\* The members moved[k], moved[k + 1], ... are put in the table in turn.
set_insert_from(table, moved, k) ==
    LET t == table
    IN  IF k > Len(moved) \/ Len(t) = 0 THEN t
        ELSE set_insert_from(set_insert_clean(t, moved[k]), moved, k + 1)

\* set_table_resize: the members are put in a new table in slot order.
set_table_resize(so, minused) ==
    LET moved == set_iter(so)
        size == set_table_size(8, minused)
    IN  [table |-> set_insert_from([s \in 1..size |-> 0], moved, 1),
         fill |-> Len(moved)]

\* The table grows when it is three fifths full.
set_grow(table, fill) ==
    LET t == table
    IN  IF fill * 5 < (Len(t) - 1) * 3 THEN [table |-> t, fill |-> fill]
        ELSE set_table_resize([table |-> t, fill |-> fill], fill * 4)

\* members.add(idx), line 145.
set_add(so, key) ==
    LET before == so
        s == set_slot(before.table, key, (key - 1) % Len(before.table), key - 1)
    IN  IF before.table[s + 1] = key THEN before
        ELSE set_grow([before.table EXCEPT ![s + 1] = key], before.fill + 1)

\* {idx}, lines 135 and 149.
set_new(key) == set_add([table |-> [s \in 1..8 |-> 0], fill |-> 0], key)

RECURSIVE set_add_from(_, _, _)

\* The members src[k], src[k + 1], ... are added in turn.
set_add_from(so, src, k) ==
    LET before == so
    IN  IF k > Len(src) \/ before.fill = 0 THEN before
        ELSE set_add_from(set_add(before, src[k]), src, k + 1)

\* clusters[i][1].update(clusters[j][1]), line 157: the table is resized
\* for both sets first, then the members of the other set are added in
\* the order of its slots.  Neither set is empty.
set_update(so, other) ==
    LET before == so
        src == set_iter(other)
    IN  set_add_from(IF (before.fill + Len(src)) * 5 >= (Len(before.table) - 1) * 3
                     THEN set_table_resize(before, (before.fill + Len(src)) * 2)
                     ELSE before,
                     src, 1)

RECURSIVE GreedyPass(_, _, _, _, _, _)

\* The pair is put before the calls of the scorer that follow it.
AfterCall(pair, rest) ==
    LET r == rest IN [r EXCEPT !.calls = <<pair>> \o @]

\* A greedy pass in which a key joins the newest cluster when a
\* representative scores at or over the threshold.
GreedyJoin_newest_cluster(cores, clusters, idx, c, threshold, scored) ==
    LET s == scored
        pair == <<cores[idx], cores[clusters[c].rep]>>
    IN  IF ~RatioLess(s.r, threshold)
        THEN [clusters |->
                 [clusters EXCEPT ![Len(clusters)].members = set_add(@, idx)],
              cache |-> s.cache, calls |-> <<pair>>]
        ELSE AfterCall(pair,
                       GreedyPass(cores, clusters, s.cache, idx, c + 1, threshold))

\* Lines 144-147: the key joins cluster c when the score is at or over the
\* threshold, and the next cluster is tried when it is not.
GreedyJoin(cores, clusters, idx, c, threshold, scored) ==
    LET s == scored
        pair == <<cores[idx], cores[clusters[c].rep]>>
    IN  IF ~RatioLess(s.r, threshold)
        THEN [clusters |-> [clusters EXCEPT ![c].members = set_add(@, idx)],
              cache |-> s.cache, calls |-> <<pair>>]
        ELSE AfterCall(pair,
                       GreedyPass(cores, clusters, s.cache, idx, c + 1, threshold))

\* A greedy pass that tries the newest cluster only.
GreedyPass_newest_only(cores, clusters, cache, idx, c, threshold) ==
    IF c > Len(clusters)
    THEN [clusters |-> Append(clusters, [rep |-> idx, members |-> set_new(idx)]),
          cache |-> cache, calls |-> <<>>]
    ELSE GreedyJoin(cores, clusters, idx, Len(clusters), threshold,
                    similarity(cores[idx], cores[clusters[Len(clusters)].rep], cache))

\* The greedy pass for the key idx, lines 141-149: the clusters are tried
\* in order from cluster c on.  calls lists the pairs passed to _similarity.
GreedyPass(cores, clusters, cache, idx, c, threshold) ==
    IF c > Len(clusters)
    THEN [clusters |-> Append(clusters, [rep |-> idx, members |-> set_new(idx)]),
          cache |-> cache, calls |-> <<>>]
    ELSE GreedyJoin(cores, clusters, idx, c, threshold,
                    similarity(cores[idx], cores[clusters[c].rep], cache))

RECURSIVE MergePass(_, _, _, _, _, _)

\* A merge that leaves the merged cluster in the list.
MergePair_keep_merged(cores, clusters, i, j, threshold, scored) ==
    LET s == scored
        pair == <<cores[clusters[i].rep], cores[clusters[j].rep]>>
    IN  IF ~RatioLess(s.r, threshold)
        THEN [clusters |->
                 [clusters EXCEPT ![i].members = set_update(@, clusters[j].members)],
              cache |-> s.cache, calls |-> <<pair>>]
        ELSE AfterCall(pair,
                       MergePass(cores, clusters, s.cache, i, j + 1, threshold))

\* Lines 155-159: cluster j is merged into cluster i and the pass ends when
\* the score is at or over the threshold; the next pair is tried when not.
MergePair(cores, clusters, i, j, threshold, scored) ==
    LET s == scored
        pair == <<cores[clusters[i].rep], cores[clusters[j].rep]>>
    IN  IF ~RatioLess(s.r, threshold)
        THEN [clusters |->
                 LET merged == [clusters EXCEPT
                                   ![i].members = set_update(@, clusters[j].members)]
                 IN  SubSeq(merged, 1, j - 1) \o SubSeq(merged, j + 1, Len(merged)),
              cache |-> s.cache, calls |-> <<pair>>]
        ELSE AfterCall(pair,
                       MergePass(cores, clusters, s.cache, i, j + 1, threshold))

\* One merge pass, lines 151-161, from the pair (i, j) on.
MergePass(cores, clusters, cache, i, j, threshold) ==
    IF i > Len(clusters) THEN [clusters |-> clusters, cache |-> cache, calls |-> <<>>]
    ELSE IF j > Len(clusters)
    THEN MergePass(cores, clusters, cache, i + 1, i + 2, threshold)
    ELSE MergePair(cores, clusters, i, j, threshold,
                   similarity(cores[clusters[i].rep], cores[clusters[j].rep], cache))

\* sorted(bucket_indices, key=lambda i: -len(unique_cores[i]))
SortedByLengthDesc(cores, bucket) ==
    LET before(m, k) ==
            \/ Len(cores[bucket[m]]) > Len(cores[bucket[k]])
            \/ Len(cores[bucket[m]]) = Len(cores[bucket[k]]) /\ m < k
        rank == [k \in 1..Len(bucket) |->
                    Cardinality({m \in 1..Len(bucket) : before(m, k)}) + 1]
    IN  [r \in 1..Len(bucket) |->
            bucket[CHOOSE k \in 1..Len(bucket) : rank[k] = r]]

\* The greedy pass for one key, from the clusters and cache so far.
GreedyFrom(cores, sofar, idx, threshold) ==
    LET st == sofar
    IN  GreedyPass(cores, st.clusters, st.cache, idx, 1, threshold)

\* Lines 139-149: the greedy pass over the keys of a bucket in order.
GreedyClusters(cores, sorted, threshold, cache) ==
    LET ord == sorted
        greedy[k \in 0..Len(ord)] ==
            IF k = 0 THEN [clusters |-> <<>>, cache |-> cache]
            ELSE GreedyFrom(cores, greedy[k - 1], ord[k], threshold)
    IN  greedy[Len(ord)]

\* One iteration of for _ in range(2), line 150.
MergeFrom(cores, sofar, threshold) ==
    LET st == sofar
    IN  MergePass(cores, st.clusters, st.cache, 1, 2, threshold)

\* Line 162: the member sets of the clusters.
MemberSets(sofar) ==
    LET st == sofar
    IN  [clusters |-> [k \in 1..Len(st.clusters) |-> st.clusters[k].members],
         cache |-> st.cache]

\* The clusters of one prefix bucket, lines 131-162.
ClusterBucket(cores, bucket, threshold, cache) ==
    IF Len(bucket) > MAX_BUCKET_SIZE_FOR_SIMILARITY
    THEN [clusters |-> [k \in 1..Len(bucket) |-> set_new(bucket[k])], cache |-> cache]
    ELSE MemberSets(
             MergeFrom(cores,
                 MergeFrom(cores,
                     GreedyClusters(cores, SortedByLengthDesc(cores, bucket),
                                    threshold, cache),
                     threshold),
                 threshold))

\* Lines 123-125.
PrefixLen(unique_cores) ==
    LET lengths == {Len(unique_cores[i]) : i \in 1..Len(unique_cores)} \ {0}
    IN  Min(PREFIX_BUCKET_LEN,
            IF lengths = {} THEN 1
            ELSE CHOOSE x \in lengths : \A y \in lengths : x <= y)

\* buckets[p]: the positions whose prefix is p, ascending.
BucketOf(prefix, p) ==
    SortedPositions({i \in 1..Len(prefix) : prefix[i] = p})

\* Line 162: all_clusters.extend(...)
ExtendClusters(sofar, bucket_clusters) ==
    LET b == bucket_clusters
    IN  [clusters |-> sofar.clusters \o b.clusters, cache |-> b.cache]

\* One iteration of for bucket_indices in buckets.values().
NextBucket(unique_cores, bucket, threshold, sofar) ==
    LET prev == sofar
    IN  ExtendClusters(prev, ClusterBucket(unique_cores, bucket, threshold, prev.cache))

\* Lines 126-162 for the prefixes of the keys.
ClusterByPrefix(unique_cores, prefixes, threshold, sim_cache) ==
    LET prefix == prefixes
        keys == Dedupe(prefix)
        all[k \in 0..Len(keys)] ==
            IF k = 0 THEN [clusters |-> <<>>, cache |-> sim_cache]
            ELSE NextBucket(unique_cores, BucketOf(prefix, keys[k]), threshold,
                            all[k - 1])
    IN  all[Len(keys)]

\* _cluster_cores: the clusters as Python sets of positions of unique_cores, and
\* the cache after the call.
cluster_cores(unique_cores, threshold, sim_cache) ==
    IF Len(unique_cores) = 0 THEN [clusters |-> <<>>, cache |-> sim_cache]
    ELSE IF Len(unique_cores) = 1 THEN [clusters |-> <<set_new(1)>>, cache |-> sim_cache]
    ELSE ClusterByPrefix(unique_cores,
                         [i \in 1..Len(unique_cores) |->
                             Take(unique_cores[i], PrefixLen(unique_cores))],
                         threshold, sim_cache)

\* by_customer[c], line 176.
CoresOf(customer_cores, c) ==
    LET rows == SortedPositions({i \in 1..Len(customer_cores) :
                                   customer_cores[i][1] = c})
    IN  [r \in 1..Len(rows) |-> customer_cores[rows[r]][2]]

\* Line 186: max(..., key=len) over the members in the order of iteration
\* of the set: the first of the longest in that order.
Representative(unique_cores, members) ==
    LET iterated == set_iter(members)
        longest == {k \in 1..Len(iterated) :
                       \A m \in 1..Len(iterated) :
                           Len(unique_cores[iterated[m]])
                               <= Len(unique_cores[iterated[k]])}
    IN  unique_cores[iterated[CHOOSE k \in longest : \A m \in longest : k <= m]]

\* A mapping that gives every key the project_id of the key itself.
MapCustomer_own_key(customer, unique_cores, clustered, sofar) ==
    LET cl == clustered
    IN  [mapping |->
            [key \in {<<customer, unique_cores[i]>> : i \in 1..Len(unique_cores)} |->
                make_project_id(customer, key[2])]
            @@ sofar.mapping,
         cache |-> cl.cache]

\* Lines 185-189: the entries of the mapping for one customer, one for
\* every key that is a member of a cluster.
MapCustomer(customer, unique_cores, clustered, sofar) ==
    LET cl == clustered
        pid == [c \in 1..Len(cl.clusters) |->
                   make_project_id(customer,
                                   Representative(unique_cores, cl.clusters[c]))]
        last(i) == LET cs == {c \in 1..Len(cl.clusters) : i \in Members(cl.clusters[c])}
                   IN  CHOOSE c \in cs : \A d \in cs : d <= c
        written == UNION {Members(cl.clusters[c]) : c \in 1..Len(cl.clusters)}
    IN  [mapping |->
            [key \in {<<customer, unique_cores[i]>> : i \in written} |->
                pid[last(IndexOf(unique_cores, key[2]))]]
            @@ sofar.mapping,
         cache |-> cl.cache]

\* One iteration of for customer, cores in by_customer.items().
NextCustomer(customer, cores, threshold, sofar) ==
    LET unique_cores == Dedupe(cores)
        prev == sofar
    IN  MapCustomer(customer, unique_cores,
                    cluster_cores(unique_cores, threshold, prev.cache), prev)

\* _build_customer_core_to_project_id: the mapping, as a function on the
\* pairs <<customer, key>>.
build_customer_core_to_project_id(customer_cores, threshold) ==
    LET customers == Dedupe([k \in 1..Len(customer_cores) |-> customer_cores[k][1]])
        all[k \in 0..Len(customers)] ==
            IF k = 0 THEN [mapping |-> <<>>, cache |-> <<>>]
            ELSE NextCustomer(customers[k], CoresOf(customer_cores, customers[k]),
                              threshold, all[k - 1])
    IN  all[Len(customers)].mapping

\* canonical_core_for_grouping(c, co) or co
KeyOrCore(canonical, co) ==
    LET k == canonical IN IF k # <<>> THEN k ELSE co

\* Lines 227-232: the pair (customer, key) of every row.
CustomerCores(table) ==
    [p \in 1..Len(table) |->
        LET c == FillNaStr(table[p].customer)
            co == FillNaStr(table[p].project_name_core)
        IN  <<c, KeyOrCore(canonical_core_for_grouping(c, co), co)>>]

\* Lines 235-238.
ProjectIds(customer_cores, built) ==
    LET mapping == built
    IN  [p \in 1..Len(customer_cores) |->
            DictGet(mapping, customer_cores[p],
                    make_project_id(customer_cores[p][1], customer_cores[p][2]))]

\* Lines 239-243, for a table whose name column is project_name.
TenderRounds(table) ==
    [p \in 1..Len(table) |->
        IF "project_name" \in DOMAIN table[p]
        THEN parse_tender_round(FillNaStr(table[p].project_name))
        ELSE 1]

AssignFrom(table, pairs) ==
    LET customer_cores == pairs
    IN  [project_ids |->
            ProjectIds(customer_cores,
                       build_customer_core_to_project_id(customer_cores,
                                                         SIMILARITY_THRESHOLD)),
         tender_rounds |-> TenderRounds(table)]

\* assign_project_ids: the two lists it returns.
assign_project_ids(table) == AssignFrom(table, CustomerCores(table))

\* run_group.run(), lines 29-31: the copy with the two new columns.
WithGroupColumns(table, assigned) ==
    LET a == assigned
    IN  [p \in 1..Len(table) |->
            SetCol(SetCol(table[p], "project_id", a.project_ids[p]),
                   "tender_round", a.tender_rounds[p])]

GroupedTable(table) == WithGroupColumns(table, assign_project_ids(table))

\* A table written by to_csv(index=False) and read back by read_csv: an
\* empty text cell comes back missing.
TextColumns == {"customer", "project_name", "project_name_core", "bidder",
                "amount_wan_yuan"}

read_csv(table) ==
    [p \in 1..Len(table) |->
        [c \in DOMAIN table[p] |->
            IF c \in TextColumns /\ table[p][c] = <<>> THEN NaN ELSE table[p][c]]]

---------------------------------------------------------------------------
(* Input tables *)

InputRecordTypes == {"tender_notice", "award_notice", DEFAULT_RECORD_TYPE}

MissingDate == NaN

UnparseableDate == <<2024, 2, 30>>

\* A record of the p-th project of the customer "c".
MakeRow(p, t, d, r) ==
    [customer |-> <<"c">>,
     project_id |-> make_project_id(<<"c">>, <<DigitSeq[p + 1]>>),
     record_type |-> t, publish_date |-> d, tender_round |-> r,
     bidder |-> NaN, amount_wan_yuan |-> NaN]

\* Histories of one project: dated and undated records, round 1.
InputRows ==
    {MakeRow(1, t, d, 1) :
        t \in InputRecordTypes,
        d \in {<<2024, 1, 5>>, <<2024, 3, 1>>, MissingDate}}

\* Dated records of two projects.
InputRowsTwoProjects ==
    {MakeRow(p, t, d, 1) :
        p \in {1, 2}, t \in InputRecordTypes,
        d \in {<<2024, 1, 5>>, <<2024, 3, 1>>}}

\* Records of two projects whose sort keys differ in the date, in the round
\* only, or have a date cell that does not parse.
InputRowsMixedKeys ==
    {MakeRow(p, t, k[1], k[2]) :
        p \in {1, 2}, t \in InputRecordTypes,
        k \in {<<<<2024, 1, 5>>, 1>>, <<<<2024, 3, 1>>, 1>>,
                <<<<2024, 3, 1>>, 2>>, <<UnparseableDate, 1>>,
                <<UnparseableDate, 2>>}}

InputTables ==
    UNION ({[1..n -> InputRows] : n \in 0..MaxRows}
           \cup {[1..n -> InputRowsTwoProjects] : n \in 0..MaxRowsTwoProjects}
           \cup {[1..n -> InputRowsMixedKeys] : n \in 0..MaxRowsMixedKeys})

CleanedRow(customer, core, name, t, d) ==
    [customer |-> customer, project_name |-> name, project_name_core |-> core,
     record_type |-> t, publish_date |-> d, bidder |-> NaN,
     amount_wan_yuan |-> NaN]

\* Records of the customers "K" and "L": keys that are equal, that differ by
\* one character at the end, that carry a project code and the customer's
\* name; a missing key and a key that is the customer's name; names with and
\* without a round marker.
CleanedRows ==
    LET abcd == <<"a", "b", "c", "d">>
    IN  {CleanedRow(<<"K">>, abcd, abcd, "tender_notice", <<2024, 1, 5>>),
         CleanedRow(<<"K">>, abcd \o <<"e">>,
                    abcd \o <<"e", "(", "<ordinal>", "<two>", "<time>", ")">>,
                    "award_notice", <<2024, 3, 1>>),
         CleanedRow(<<"K">>,
                    <<"2", "0", "2", "5", "-", "Z", "-", "1", ":", " ", "K", " ">>
                        \o abcd,
                    abcd \o <<"<ordinal>", "2", "<batch>">>,
                    "tender_notice", <<2024, 3, 1>>),
         CleanedRow(<<"L">>, abcd, abcd, "award_notice", <<2024, 3, 1>>),
         CleanedRow(<<"K">>, abcd \o <<"y">>, abcd \o <<"y">>,
                    DEFAULT_RECORD_TYPE, NaN),
         CleanedRow(<<"K">>, NaN, NaN, "tender_notice", <<2024, 1, 5>>),
         CleanedRow(<<"K">>, <<"K">>, <<"K">>, "tender_notice", <<2024, 1, 5>>)}

CleanedTables == UNION {[1..n -> CleanedRows] : n \in 0..MaxCleanedRows}

---------------------------------------------------------------------------
(* assign_link: preparation *)

\* df = df.copy(); row_id; the four helper columns.
WithHelperColumns(table) ==
    [p \in 1..Len(table) |->
        LET r0 == table[p]
            r1 == SetCol(r0, "row_id", RowId(p - 1))
            r2 == SetCol(r1, "_sort_date", to_datetime(r0.publish_date))
            r3 == SetCol(r2, "_tender_round", r0.tender_round)
            r4 == SetCol(r3, "_is_tender", is_tender(r0.record_type))
        IN  SetCol(r4, "_is_bid", is_bid(r0.record_type))]

\* The comparison under na_position="first".
DateLess_na_first(a, b) ==
    IF b = NaT THEN FALSE
    ELSE IF a = NaT THEN TRUE
    ELSE a[1] < b[1]

\* Comparison of two _sort_date cells under na_position="last".
DateLess(a, b) ==
    IF a = NaT THEN FALSE
    ELSE IF b = NaT THEN TRUE
    ELSE a[1] < b[1]

\* Lexicographic order on [project_id, _sort_date, _tender_round].
KeyLess(ra, rb) ==
    \/ /\ ra.project_id # rb.project_id
       /\ ProjectIdLess(ra.project_id, rb.project_id)
    \/ /\ ra.project_id = rb.project_id
       /\ \/ DateLess(ra["_sort_date"], rb["_sort_date"])
          \/ /\ ra["_sort_date"] = rb["_sort_date"]
             /\ ra["_tender_round"] < rb["_tender_round"]

\* An order in which, of two rows with equal keys, the later row is placed
\* first.
SortsBefore_later_row_first(table, p, q) ==
    \/ KeyLess(table[p], table[q])
    \/ (~KeyLess(table[q], table[p]) /\ p > q)

\* Row p is placed before row q: smaller key, or equal key and earlier row
\* (the multi-column sort is a stable lexsort).
SortsBefore(table, p, q) ==
    \/ KeyLess(table[p], table[q])
    \/ (~KeyLess(table[q], table[p]) /\ p < q)

\* df.sort_values([...], na_position="last").index.tolist(), as positions.
SortedOrder(table) ==
    LET rank == [p \in 1..Len(table) |->
                    Cardinality({q \in 1..Len(table) : SortsBefore(table, q, p)})]
    IN  [k \in 1..Len(table) |-> CHOOSE p \in 1..Len(table) : rank[p] = k - 1]

\* row_id_to_idx[rid]: the position of the row whose row_id is rid.
row_id_to_idx(table, rid) == CHOOSE p \in 1..Len(table) : table[p].row_id = rid

\* The local lists and dictionaries before the loop.
InitialPass(n) ==
    [link_type |-> [p \in 1..n |-> LT_OTHER],
     related_tender_id |-> [p \in 1..n |-> EmptyStr],
     related_bid_id |-> [p \in 1..n |-> EmptyStr],
     last_tender_by_project |-> <<>>,
     tender_has_bid |-> {}]

---------------------------------------------------------------------------
(* assign_link: one iteration of the ordered loop *)

TenderBranch(table, st, idx, i, pid) ==
    [st EXCEPT !.last_tender_by_project[pid] = table[idx].row_id,
               !.link_type[i] = LT_TENDER_ONLY,
               !.related_bid_id[i] = EmptyStr,
               !.related_tender_id[i] = EmptyStr]

\* A bid that closes the tender it is linked to.
BidBranch_closing(table, st, idx, i, pid) ==
    LET last_tender == st.last_tender_by_project[pid]
    IN  IF last_tender # None
        THEN [st EXCEPT !.link_type[i] = LT_LINKED,
                        !.related_tender_id[i] = last_tender,
                        !.related_bid_id[i] = EmptyStr,
                        !.tender_has_bid = @ \cup {last_tender},
                        !.last_tender_by_project[pid] = None]
        ELSE [st EXCEPT !.link_type[i] = LT_BID_ONLY,
                        !.related_tender_id[i] = EmptyStr,
                        !.related_bid_id[i] = EmptyStr]

\* A bid that is linked to the open tender without the tender being recorded
\* in tender_has_bid.
BidBranch_tender_not_recorded(table, st, idx, i, pid) ==
    LET last_tender == st.last_tender_by_project[pid]
    IN  IF last_tender # None
        THEN [st EXCEPT !.link_type[i] = LT_LINKED,
                        !.related_tender_id[i] = last_tender,
                        !.related_bid_id[i] = EmptyStr]
        ELSE [st EXCEPT !.link_type[i] = LT_BID_ONLY,
                        !.related_tender_id[i] = EmptyStr,
                        !.related_bid_id[i] = EmptyStr]

BidBranch(table, st, idx, i, pid) ==
    LET last_tender == st.last_tender_by_project[pid]
    IN  IF last_tender # None
        THEN [st EXCEPT !.link_type[i] = LT_LINKED,
                        !.related_tender_id[i] = last_tender,
                        !.related_bid_id[i] = EmptyStr,
                        !.tender_has_bid = @ \cup {last_tender}]
        ELSE [st EXCEPT !.link_type[i] = LT_BID_ONLY,
                        !.related_tender_id[i] = EmptyStr,
                        !.related_bid_id[i] = EmptyStr]

\* A record of another type that closes the open tender of its project.
OtherBranch_closing(table, st, idx, i, pid) ==
    [st EXCEPT !.link_type[i] = LT_OTHER,
               !.related_tender_id[i] = EmptyStr,
               !.related_bid_id[i] = EmptyStr,
               !.last_tender_by_project[pid] = None]

OtherBranch(table, st, idx, i, pid) ==
    [st EXCEPT !.link_type[i] = LT_OTHER,
               !.related_tender_id[i] = EmptyStr,
               !.related_bid_id[i] = EmptyStr]

\* A loop body that keeps one open tender for all projects.
LoopBody_one_open_tender(table, st, idx) ==
    LET i == row_id_to_idx(table, table[idx].row_id)
        pid == 0
        st1 == IF pid \in DOMAIN st.last_tender_by_project
               THEN st
               ELSE [st EXCEPT !.last_tender_by_project = (pid :> None) @@ @]
    IN  IF table[idx]["_is_tender"] THEN TenderBranch(table, st1, idx, i, pid)
        ELSE IF table[idx]["_is_bid"] THEN BidBranch(table, st1, idx, i, pid)
        ELSE OtherBranch(table, st1, idx, i, pid)

LoopBody(table, st, idx) ==
    LET i == row_id_to_idx(table, table[idx].row_id)
        pid == table[idx].project_id
        st1 == IF pid \in DOMAIN st.last_tender_by_project
               THEN st
               ELSE [st EXCEPT !.last_tender_by_project = (pid :> None) @@ @]
    IN  IF table[idx]["_is_tender"] THEN TenderBranch(table, st1, idx, i, pid)
        ELSE IF table[idx]["_is_bid"] THEN BidBranch(table, st1, idx, i, pid)
        ELSE OtherBranch(table, st1, idx, i, pid)

---------------------------------------------------------------------------
(* assign_link: post-pass *)

\* The dict bid_to_tender in insertion order: <<bid row_id, tender row_id>>
\* for every row, in row order, whose related_tender_id is not empty.
bid_to_tender(table, st) ==
    LET Pair(p) == <<table[p].row_id, st.related_tender_id[p]>>
        F[p \in 0..Len(table)] ==
            IF p = 0 THEN <<>>
            ELSE IF Len(st.related_tender_id[p]) > 0
                 THEN Append(F[p - 1], Pair(p))
                 ELSE F[p - 1]
    IN  F[Len(table)]

\* tender_to_one_bid: the first bid, in the iteration order of bid_to_tender,
\* of every tender that occurs in it.
tender_to_one_bid(table, st) ==
    LET b2t == bid_to_tender(table, st)
    IN  [t \in {b2t[k][2] : k \in 1..Len(b2t)} |->
            b2t[CHOOSE k \in 1..Len(b2t) :
                    /\ b2t[k][2] = t
                    /\ \A j \in 1..(k - 1) : b2t[j][2] # t][1]]

\* dict.get(key, default)
\* A post-pass that relabels every row, not only the tender rows.
PostPass_relabel_all(table, st) ==
    LET t2b == tender_to_one_bid(table, st)
        Labelled(p) ==
            LET r1 == SetCol(table[p], "link_type", st.link_type[p])
                r2 == SetCol(r1, "related_tender_id", st.related_tender_id[p])
            IN  SetCol(r2, "related_bid_id", st.related_bid_id[p])
        Relabelled(p) ==
            LET r == Labelled(p)
            IN  IF r.row_id \notin st.tender_has_bid
                THEN SetCol(r, "link_type", LT_TENDER_ONLY)
                ELSE SetCol(SetCol(r, "link_type", LT_LINKED),
                            "related_bid_id", DictGet(t2b, r.row_id, EmptyStr))
    IN  [p \in 1..Len(table) |-> DropCols(Relabelled(p), HelperColumns)]

\* A post-pass that writes the columns and never relabels a tender.
PostPass_no_relabel(table, st) ==
    [p \in 1..Len(table) |->
        DropCols(SetCol(SetCol(SetCol(table[p],
                                      "link_type", st.link_type[p]),
                               "related_tender_id", st.related_tender_id[p]),
                        "related_bid_id", st.related_bid_id[p]),
                 HelperColumns)]

\* Lines 92-116: write the three lists as columns, relabel the tender rows,
\* drop the helper columns.
PostPass(table, st) ==
    LET t2b == tender_to_one_bid(table, st)
        Labelled(p) ==
            LET r1 == SetCol(table[p], "link_type", st.link_type[p])
                r2 == SetCol(r1, "related_tender_id", st.related_tender_id[p])
            IN  SetCol(r2, "related_bid_id", st.related_bid_id[p])
        Relabelled(p) ==
            LET r == Labelled(p)
            IN  IF r["_is_tender"]
                THEN IF r.row_id \notin st.tender_has_bid
                     THEN SetCol(r, "link_type", LT_TENDER_ONLY)
                     ELSE SetCol(SetCol(r, "link_type", LT_LINKED),
                                 "related_bid_id", DictGet(t2b, r.row_id, EmptyStr))
                ELSE r
    IN  [p \in 1..Len(table) |-> DropCols(Relabelled(p), HelperColumns)]

---------------------------------------------------------------------------
(* build_link_table *)

\* A link table of every 'linked' row, tender rows included.
build_link_table_every_linked_row(table) ==
    LET F[p \in 0..Len(table)] ==
            IF p = 0 THEN <<>>
            ELSE IF table[p].link_type = LT_LINKED
                 THEN Append(F[p - 1],
                             [project_id |-> table[p].project_id,
                              tender_row_id |-> table[p].related_tender_id,
                              bid_row_id |-> table[p].row_id,
                              tender_round |-> table[p].tender_round,
                              publish_date |-> table[p].publish_date,
                              bidder |-> table[p].bidder,
                              amount_wan_yuan |-> table[p].amount_wan_yuan])
                 ELSE F[p - 1]
    IN  F[Len(table)]

build_link_table(table) ==
    LET F[p \in 0..Len(table)] ==
            IF p = 0 THEN <<>>
            ELSE IF /\ table[p].link_type = LT_LINKED
                    /\ Len(table[p].related_tender_id) > 0
                 THEN Append(F[p - 1],
                             [project_id |-> table[p].project_id,
                              tender_row_id |-> table[p].related_tender_id,
                              bid_row_id |-> table[p].row_id,
                              tender_round |-> table[p].tender_round,
                              publish_date |-> table[p].publish_date,
                              bidder |-> table[p].bidder,
                              amount_wan_yuan |-> table[p].amount_wan_yuan])
                 ELSE F[p - 1]
    IN  F[Len(table)]

---------------------------------------------------------------------------
(* assign_link as a function of its input table *)

\* The loop of lines 64-90 over the first k entries of ord.
RunLoop(table, ord, k) ==
    LET F[j \in 0..k] ==
            IF j = 0 THEN InitialPass(Len(table))
            ELSE LET prev == F[j - 1] IN LoopBody(table, prev, ord[j])
    IN  F[k]

assign_link(table) ==
    LET d == WithHelperColumns(table)
        ord == SortedOrder(d)
        st == RunLoop(d, ord, Len(ord))
    IN  PostPass(d, st)

---------------------------------------------------------------------------
(* run_group.run() and run_link.run() as a state machine *)

\* The local lists and dictionaries of assign_link, as one record.
PassState ==
    [link_type |-> link_type,
     related_tender_id |-> related_tender_id,
     related_bid_id |-> related_bid_id,
     last_tender_by_project |-> last_tender_by_project,
     tender_has_bid |-> tender_has_bid]

\* Either the cleaned table is there and run_group.run() starts, or a
\* grouped table is there and run_link.run() starts.
Init ==
    /\ \/ /\ pc = "cleaned"
          /\ cleaned_df \in CleanedTables
          /\ caller_df = <<>>
       \/ /\ pc = "read"
          /\ cleaned_df = <<>>
          /\ caller_df \in InputTables
    /\ grouped_df = <<>>
    /\ df = <<>>
    /\ order = <<>>
    /\ pos = 0
    /\ link_type = <<>>
    /\ related_tender_id = <<>>
    /\ related_bid_id = <<>>
    /\ last_tender_by_project = <<>>
    /\ tender_has_bid = {}
    /\ result = <<>>
    /\ link_table = <<>>
    /\ build = Idle
    /\ scorer = Idle
    /\ pipeline = Idle

\* run_group.run(), lines 23-34: the grouped table is written.
RunGroup ==
    /\ pc = "cleaned"
    /\ pc' = "grouped"
    /\ grouped_df' = GroupedTable(cleaned_df)
    /\ UNCHANGED <<build, scorer, pipeline, cleaned_df, caller_df, df, order, pos, link_type,
                   related_tender_id, related_bid_id, last_tender_by_project,
                   tender_has_bid, result, link_table>>

\* run_link.run(), line 24: the grouped table is read.
ReadGrouped ==
    /\ pc = "grouped"
    /\ pc' = "read"
    /\ caller_df' = read_csv(grouped_df)
    /\ UNCHANGED <<build, scorer, pipeline, cleaned_df, grouped_df, df, order, pos, link_type,
                   related_tender_id, related_bid_id, last_tender_by_project,
                   tender_has_bid, result, link_table>>

\* An assign_link that works on the caller's table.
Prepare_in_place ==
    /\ pc = "read"
    /\ pc' = "loop"
    /\ df' = WithHelperColumns(caller_df)
    /\ caller_df' = df'
    /\ order' = SortedOrder(df')
    /\ pos' = 0
    /\ LET st == InitialPass(Len(caller_df))
       IN  /\ link_type' = st.link_type
           /\ related_tender_id' = st.related_tender_id
           /\ related_bid_id' = st.related_bid_id
           /\ last_tender_by_project' = st.last_tender_by_project
           /\ tender_has_bid' = st.tender_has_bid
    /\ UNCHANGED <<build, scorer, pipeline, cleaned_df, grouped_df, result, link_table>>

\* assign_link, lines 38-62.
Prepare ==
    /\ pc = "read"
    /\ pc' = "loop"
    /\ df' = WithHelperColumns(caller_df)
    /\ order' = SortedOrder(df')
    /\ pos' = 0
    /\ LET st == InitialPass(Len(caller_df))
       IN  /\ link_type' = st.link_type
           /\ related_tender_id' = st.related_tender_id
           /\ related_bid_id' = st.related_bid_id
           /\ last_tender_by_project' = st.last_tender_by_project
           /\ tender_has_bid' = st.tender_has_bid
    /\ UNCHANGED <<build, scorer, pipeline, cleaned_df, grouped_df, caller_df, result, link_table>>

\* assign_link, lines 64-90: the iteration for order[pos + 1].
LoopStep ==
    /\ pc = "loop"
    /\ pos < Len(order)
    /\ LET st == LoopBody(df, PassState, order[pos + 1])
       IN  /\ link_type' = st.link_type
           /\ related_tender_id' = st.related_tender_id
           /\ related_bid_id' = st.related_bid_id
           /\ last_tender_by_project' = st.last_tender_by_project
           /\ tender_has_bid' = st.tender_has_bid
    /\ pos' = pos + 1
    /\ UNCHANGED <<build, scorer, pipeline, pc, cleaned_df, grouped_df, caller_df, df, order, result,
                   link_table>>

\* assign_link, lines 92-116, and the return.
Finish ==
    /\ pc = "loop"
    /\ pos = Len(order)
    /\ pc' = "linked"
    /\ result' = PostPass(df, PassState)
    /\ UNCHANGED <<build, scorer, pipeline, cleaned_df, grouped_df, caller_df, df, order, pos,
                   link_type, related_tender_id, related_bid_id,
                   last_tender_by_project, tender_has_bid, link_table>>

\* run_link.run(), line 38: link_table = build_link_table(df).
BuildLinkTable ==
    /\ pc = "linked"
    /\ pc' = "done"
    /\ link_table' = build_link_table(result)
    /\ UNCHANGED <<build, scorer, pipeline, cleaned_df, grouped_df, caller_df, df, order, pos,
                   link_type, related_tender_id, related_bid_id,
                   last_tender_by_project, tender_has_bid, result>>

Next ==
    \/ RunGroup
    \/ ReadGrouped
    \/ Prepare
    \/ LoopStep
    \/ Finish
    \/ BuildLinkTable

Spec == Init /\ [][Next]_vars

---------------------------------------------------------------------------
(* _build_customer_core_to_project_id as a state machine *)

\* The variables of run_group.run() and run_link.run().
link_vars == <<pc, cleaned_df, grouped_df, caller_df, df, order, pos, link_type,
               related_tender_id, related_bid_id, last_tender_by_project,
               tender_has_bid, result, link_table>>

\* Neither run_group.run() nor run_link.run() is running.
LinkIdle ==
    /\ pc = "idle"
    /\ cleaned_df = <<>>
    /\ grouped_df = <<>>
    /\ caller_df = <<>>
    /\ df = <<>>
    /\ order = <<>>
    /\ pos = 0
    /\ link_type = <<>>
    /\ related_tender_id = <<>>
    /\ related_bid_id = <<>>
    /\ last_tender_by_project = <<>>
    /\ tender_has_bid = {}
    /\ result = <<>>
    /\ link_table = <<>>

\* Canonical keys.  KeyX and KeyY have their first 8 characters in common
\* and score 10/11 as (KeyX, KeyY) and 9/11 as (KeyY, KeyX); KeyXc holds
\* KeyX; KeyBX holds KeyX after another first character.
KeyA == <<"a">>

KeyX == <<"a", "a", "a", "a", "a", "a", "a", "a", "a", "b", "c">>

KeyY == <<"a", "a", "a", "a", "a", "a", "a", "a", "c", "a", "c">>

KeyXc == KeyX \o <<"c">>

KeyBX == <<"b">> \o KeyX

GroupingKeys == {EmptyStr, KeyA, KeyX, KeyY, KeyXc, KeyBX}

\* Two customers that make_project_id gives the same safe_customer.
GroupingCustomers == {<<"K", "-">>, <<"K", "_">>}

\* The lists of (customer, key) of up to MaxPairs rows.
PairLists ==
    UNION {[1..n -> GroupingCustomers \X GroupingKeys] : n \in 1..MaxPairs}

\* A list of n distinct keys of one customer, one key to a bucket but for
\* the second key and the last, which differ in their last character.
LongPrefix == <<"a", "b", "c", "d", "e", "f", "g", "h">>

Fillers == <<"b", "c", "d", "e", "f", "g", "h", "i", "j">>

ManyKeys(n) ==
    [k \in 1..n |->
        <<<<"K">>,
          IF k = 2 THEN LongPrefix \o <<"i">>
          ELSE IF k = n THEN LongPrefix \o <<"x">>
          ELSE <<Fillers[IF k = 1 THEN 1 ELSE k - 1]>>>>]

ManyKeysLists == {ManyKeys(n) : n \in 8..9}

\* A list of n distinct keys of one customer that share their first 8
\* characters: the prefix alone, then the prefix and one digit, then the
\* prefix and two digits.
Suffix(k) ==
    IF k = 1 THEN <<>>
    ELSE IF k <= 11 THEN <<DigitSeq[k - 1]>>
    ELSE <<DigitSeq[((k - 12) \div 10) + 1], DigitSeq[((k - 12) % 10) + 1]>>

OneBucket(n) == [k \in 1..n |-> <<<<"K">>, LongPrefix \o Suffix(k)>>]

OneBucketLists ==
    {OneBucket(n) : n \in MAX_BUCKET_SIZE_FOR_SIMILARITY..(MAX_BUCKET_SIZE_FOR_SIMILARITY + 1)}

\* A list of one row more than the cap, with the same key in every row.
SameKey(n) == [k \in 1..n |-> <<<<"K">>, LongPrefix>>]

SameKeyLists == {SameKey(MAX_BUCKET_SIZE_FOR_SIMILARITY + 1)}

\* Two keys of the same length with the same first eight characters that
\* SequenceMatcher scores 10/11 in this order and 9/11 in the other.
ScoredByOrder(x, y) ==
    << <<"a", "a", "a", "a", "a", "a", "a", "a", "a", x, y>>,
       <<"a", "a", "a", "a", "a", "a", "a", "a", y, "a", y>> >>

\* Six keys of one customer in one bucket: three such pairs over different
\* letters.
ThreePairs ==
    LET keys == ScoredByOrder("b", "c") \o ScoredByOrder("d", "e")
                    \o ScoredByOrder("f", "g")
    IN  [k \in 1..Len(keys) |-> <<<<"K">>, keys[k]>>]

ThreePairsLists == {ThreePairs}

GroupingInputs ==
    PairLists \cup ManyKeysLists \cup OneBucketLists \cup SameKeyLists
        \cup ThreePairsLists

\* Lines 172-178: the locals before the loop over the customers.  k is the
\* number of customers done; b, order, pos, clusters and round are the
\* locals of _cluster_cores: the number of buckets done, the sorted bucket,
\* the number of its keys done, the clusters of the bucket and the number
\* of merge passes done.  calls is the set of the pairs that this call of
\* _cluster_cores passed to _similarity.
BuildStart(cc) ==
    [pc |-> "customers", customer_cores |-> cc, threshold |-> SIMILARITY_THRESHOLD,
     by_customer |-> Dedupe([k \in 1..Len(cc) |-> cc[k][1]]), k |-> 0,
     customer |-> <<>>, unique_cores |-> <<>>, buckets |-> <<>>, b |-> 0,
     order |-> <<>>, pos |-> 0, clusters |-> <<>>, round |-> 0,
     all_clusters |-> <<>>, mapping |-> <<>>, sim_cache |-> <<>>, calls |-> {},
     project_ids |-> <<>>]

InitCluster ==
    /\ LinkIdle
    /\ scorer = Idle
    /\ pipeline = Idle
    /\ \E cc \in GroupingInputs : build = BuildStart(cc)

\* All the keys of a customer in one bucket.
Buckets_one_bucket(unique_cores) == <<[i \in 1..Len(unique_cores) |-> i]>>

\* Lines 126-129: the buckets in the order of their first key.
Buckets(unique_cores) ==
    LET prefix == [i \in 1..Len(unique_cores) |->
                      Take(unique_cores[i], PrefixLen(unique_cores))]
        keys == Dedupe(prefix)
    IN  [k \in 1..Len(keys) |-> BucketOf(prefix, keys[k])]

\* Lines 179-184 and 116-130: the next customer; a single key is its own
\* cluster.
EnterCustomer(b, customer, cores) ==
    LET unique_cores == cores
    IN  IF Len(unique_cores) = 1
        THEN [b EXCEPT !.pc = "map", !.customer = customer,
                       !.unique_cores = unique_cores, !.buckets = <<>>,
                       !.all_clusters = <<set_new(1)>>, !.calls = {}]
        ELSE [b EXCEPT !.pc = "buckets", !.customer = customer,
                       !.unique_cores = unique_cores,
                       !.buckets = Buckets(unique_cores), !.b = 0,
                       !.all_clusters = <<>>, !.calls = {}]

\* Line 180: list(dict.fromkeys(cores))
UniqueCores(listed) == LET cores == listed IN Dedupe(cores)

StartCustomer ==
    /\ build.pc = "customers"
    /\ build' = EnterCustomer(build, build.by_customer[build.k + 1],
                              UniqueCores(CoresOf(build.customer_cores,
                                                  build.by_customer[build.k + 1])))
    /\ UNCHANGED <<link_vars, scorer, pipeline>>

\* The bucket is done: the next bucket, or the return of line 162.
BucketDone(b) == IF b.b + 1 = Len(b.buckets) THEN "map" ELSE "buckets"

\* A cap that a bucket of 80 keys is over.
EnterBucket_cap_inclusive(b, bucket) ==
    IF Len(bucket) >= MAX_BUCKET_SIZE_FOR_SIMILARITY
    THEN [b EXCEPT !.all_clusters = @ \o [k \in 1..Len(bucket) |-> set_new(bucket[k])],
                   !.b = @ + 1, !.pc = BucketDone(b)]
    ELSE [b EXCEPT !.pc = "greedy",
                   !.order = SortedByLengthDesc(b.unique_cores, bucket),
                   !.pos = 0, !.clusters = <<>>, !.round = 0]

\* A bucket over the cap that is passed over: no cluster is made for its
\* keys.
EnterBucket_skips_bucket_over_cap(b, bucket) ==
    IF Len(bucket) > MAX_BUCKET_SIZE_FOR_SIMILARITY
    THEN [b EXCEPT !.b = @ + 1, !.pc = BucketDone(b)]
    ELSE [b EXCEPT !.pc = "greedy",
                   !.order = SortedByLengthDesc(b.unique_cores, bucket),
                   !.pos = 0, !.clusters = <<>>, !.round = 0]

\* Lines 131-138: a bucket over the cap gives one cluster to a key, any
\* other bucket is sorted for the greedy pass.
EnterBucket(b, bucket) ==
    IF Len(bucket) > MAX_BUCKET_SIZE_FOR_SIMILARITY
    THEN [b EXCEPT !.all_clusters = @ \o [k \in 1..Len(bucket) |-> set_new(bucket[k])],
                   !.b = @ + 1, !.pc = BucketDone(b)]
    ELSE [b EXCEPT !.pc = "greedy",
                   !.order = SortedByLengthDesc(b.unique_cores, bucket),
                   !.pos = 0, !.clusters = <<>>, !.round = 0]

StartBucket ==
    /\ build.pc = "buckets"
    /\ build' = EnterBucket(build, build.buckets[build.b + 1])
    /\ UNCHANGED <<link_vars, scorer, pipeline>>

\* Lines 140-149: one iteration of for idx in order.
AfterGreedy(b, passed) ==
    LET g == passed
    IN  [b EXCEPT !.clusters = g.clusters, !.sim_cache = g.cache,
                  !.calls = @ \cup Range(g.calls), !.pos = @ + 1,
                  !.pc = IF b.pos + 1 = Len(b.order) THEN "merge" ELSE "greedy"]

GreedyStep ==
    /\ build.pc = "greedy"
    /\ build' = AfterGreedy(build,
                            GreedyPass(build.unique_cores, build.clusters,
                                       build.sim_cache, build.order[build.pos + 1],
                                       1, build.threshold))
    /\ UNCHANGED <<link_vars, scorer, pipeline>>

\* Lines 150-162: one iteration of for _ in range(2); after the second the
\* member sets of the bucket's clusters are added to all_clusters.
AfterMerge(b, passed) ==
    LET m == passed
        merged == [b EXCEPT !.clusters = m.clusters, !.sim_cache = m.cache,
                            !.calls = @ \cup Range(m.calls), !.round = @ + 1]
    IN  IF b.round + 1 < 2 THEN merged
        ELSE [merged EXCEPT
                 !.all_clusters =
                     @ \o [k \in 1..Len(m.clusters) |-> m.clusters[k].members],
                 !.b = @ + 1, !.pc = BucketDone(b)]

MergeStep ==
    /\ build.pc = "merge"
    /\ build' = AfterMerge(build,
                           MergePass(build.unique_cores, build.clusters,
                                     build.sim_cache, 1, 2, build.threshold))
    /\ UNCHANGED <<link_vars, scorer, pipeline>>

\* Lines 185-189: the entries of the mapping for the customer's clusters.
MapClusters ==
    /\ build.pc = "map"
    /\ build' = [build EXCEPT
                    !.mapping = MapCustomer(build.customer, build.unique_cores,
                                            [clusters |-> build.all_clusters,
                                             cache |-> build.sim_cache],
                                            [mapping |-> build.mapping]).mapping,
                    !.k = @ + 1,
                    !.pc = IF build.k + 1 = Len(build.by_customer)
                           THEN "built" ELSE "customers"]
    /\ UNCHANGED <<link_vars, scorer, pipeline>>

\* assign_project_ids, lines 233-238: the project_id of every row.
AssignIds ==
    /\ build.pc = "built"
    /\ build' = [build EXCEPT
                    !.project_ids = ProjectIds(build.customer_cores, build.mapping),
                    !.pc = "assigned"]
    /\ UNCHANGED <<link_vars, scorer, pipeline>>

NextCluster ==
    \/ StartCustomer
    \/ StartBucket
    \/ GreedyStep
    \/ MergeStep
    \/ MapClusters
    \/ AssignIds

SpecCluster == InitCluster /\ [][NextCluster]_vars

---------------------------------------------------------------------------
(* Vocabulary of the properties *)

Rows == 1..Len(caller_df)

TenderClass(p) == caller_df[p].record_type \in TENDER_RECORD_TYPES

BidClass(p) == caller_df[p].record_type \in BID_RECORD_TYPES

OtherClass(p) == ~TenderClass(p) /\ ~BidClass(p)

SameProject(p, q) == caller_df[p].project_id = caller_df[q].project_id

\* The loop of assign_link is running or has ended.
InLoop == pc = "loop"

\* assign_link has just returned; result is not written again.
Returned == pc = "linked"

MaxOf(S) == CHOOSE x \in S : \A y \in S : y <= x

MinOf(S) == CHOOSE x \in S : \A y \in S : x <= y

\* The position in order of row p.
OrderPos(p) == CHOOSE k \in 1..Len(order) : order[k] = p

\* Positions of order, before position k, that hold a tender-class record
\* of the project of the record at position k.
PriorTenders(k) ==
    {j \in 1..(k - 1) : SameProject(order[j], order[k]) /\ TenderClass(order[j])}

\* The bid-class rows whose related_tender_id names row p.
LinkedBids(p) ==
    {q \in Rows : BidClass(q) /\ result[q].related_tender_id = result[p].row_id}

---------------------------------------------------------------------------
(* C1: every processed bid-class record is marked 'linked' to the most     *)
(* recent tender-class record of its project that precedes it in           *)
(* processing order, whether or not that tender already has a bid, and is  *)
(* 'bid-only' with empty related_tender_id exactly when no tender of the   *)
(* project precedes it; the returned table carries the same marks.         *)
C1_Expected(k, lt, rt) ==
    IF PriorTenders(k) = {}
    THEN lt = LT_BID_ONLY /\ rt = EmptyStr
    ELSE lt = LT_LINKED /\ rt = RowId(order[MaxOf(PriorTenders(k))] - 1)

---------------------------------------------------------------------------
(* C2: in the returned table a tender-class record is 'linked' if and only *)
(* if some bid-class record has related_tender_id equal to its row_id;     *)
(* otherwise it is 'tender-only' with empty related_bid_id; a tender's own *)
(* related_tender_id is always empty.                                      *)
C2_tender_linked_iff_referenced ==
    Returned =>
        \A p \in Rows :
            TenderClass(p) =>
                /\ result[p].link_type = LT_LINKED <=> LinkedBids(p) # {}
                /\ LinkedBids(p) = {} =>
                      /\ result[p].link_type = LT_TENDER_ONLY
                      /\ result[p].related_bid_id = EmptyStr
                /\ result[p].related_tender_id = EmptyStr

\* The returned table holds a bid processed before the only tender of its
\* project (bid-only, tender-only) and a tender that a bid is linked to.
C2_witness ==
    /\ Returned
    /\ \E p, q \in Rows :
          /\ BidClass(p) /\ TenderClass(q) /\ SameProject(p, q)
          /\ OrderPos(p) < OrderPos(q)
          /\ result[p].link_type = LT_BID_ONLY
          /\ result[q].link_type = LT_TENDER_ONLY
    /\ \E p \in Rows :
          /\ TenderClass(p) /\ LinkedBids(p) # {}
          /\ result[p].link_type = LT_LINKED

---------------------------------------------------------------------------
(* C3: for every tender-class record that ends 'linked', related_bid_id is *)
(* the row_id of the first bid, in processing order (publish_date          *)
(* ascending, nulls last, then tender_round), among the bids linked to it, *)
(* whatever the row order of the input.                                    *)
C3_related_bid_is_first_in_key_order ==
    Returned =>
        \A p \in Rows :
            (TenderClass(p) /\ result[p].link_type = LT_LINKED) =>
                LET first == MinOf({OrderPos(q) : q \in LinkedBids(p)})
                IN  result[p].related_bid_id = RowId(order[first] - 1)

---------------------------------------------------------------------------
(* C4: each bid-class record is paired with the most recent tender-class   *)
(* record of its project that has no bid linked to it yet at the moment    *)
(* the bid is processed (and is bid-only when there is none).              *)
C4_bid_pairs_with_unpaired_tender ==
    InLoop =>
        \A k \in 1..pos :
            BidClass(order[k]) =>
                LET paired_before ==
                        {related_tender_id[order[i]] : i \in 1..(k - 1)}
                    unpaired ==
                        {j \in PriorTenders(k) :
                            RowId(order[j] - 1) \notin paired_before}
                IN  IF unpaired = {}
                    THEN /\ link_type[order[k]] = LT_BID_ONLY
                         /\ related_tender_id[order[k]] = EmptyStr
                    ELSE /\ link_type[order[k]] = LT_LINKED
                         /\ related_tender_id[order[k]] =
                                RowId(order[MaxOf(unpaired)] - 1)

---------------------------------------------------------------------------
(* C5: in the returned table every input record is present with exactly    *)
(* one link_type out of the four labels, and the label agrees with the     *)
(* class of the record: a tender-class record is linked or tender-only, a  *)
(* bid-class record is linked or bid-only, any other record is 'other'.    *)
LinkTypes == {LT_LINKED, LT_TENDER_ONLY, LT_BID_ONLY, LT_OTHER}

C5_link_type_matches_class ==
    Returned =>
        /\ Len(result) = Len(caller_df)
        /\ \A p \in Rows :
              /\ "link_type" \in DOMAIN result[p]
              /\ result[p].link_type \in LinkTypes
              /\ TenderClass(p) =>
                    result[p].link_type \in {LT_LINKED, LT_TENDER_ONLY}
              /\ BidClass(p) =>
                    result[p].link_type \in {LT_LINKED, LT_BID_ONLY}
              /\ OtherClass(p) => result[p].link_type = LT_OTHER

\* A returned table with a project of a single record, and with the labels
\* linked and other.
C5_witness ==
    /\ Returned
    /\ \E p \in Rows : \A q \in Rows \ {p} : ~SameProject(p, q)
    /\ \A l \in {LT_LINKED, LT_OTHER} :
          \E p \in Rows : result[p].link_type = l

---------------------------------------------------------------------------
(* Sub-tables, for the properties that compare two runs of assign_link *)

\* The positions of S in ascending order.
Ascending(S) ==
    [j \in 1..Cardinality(S) |->
        CHOOSE x \in S : Cardinality({y \in S : y < x}) = j - 1]

\* The rows of caller_df at the positions keep, in their row order.
SubTable(keep) == [j \in 1..Len(keep) |-> caller_df[keep[j]]]

\* A row_id of the run on SubTable(keep), as the row_id the same record has
\* in the run on caller_df.
Renumbered(keep, rid) ==
    IF rid = EmptyStr THEN EmptyStr ELSE RowId(keep[rid[2] + 1] - 1)

\* The run on the rows S alone gives every record of S the link_type and
\* the link partners it has in the run on caller_df.
SameLinksWithin(S) ==
    LET keep == Ascending(S)
        alone == assign_link(SubTable(keep))
    IN  \A j \in 1..Len(keep) :
            /\ alone[j].link_type = result[keep[j]].link_type
            /\ Renumbered(keep, alone[j].related_tender_id)
                   = result[keep[j]].related_tender_id
            /\ Renumbered(keep, alone[j].related_bid_id)
                   = result[keep[j]].related_bid_id

---------------------------------------------------------------------------
(* C6: a record whose type is in neither vocabulary is marked 'other' with *)
(* empty related ids and no record refers to it; its iteration of the loop *)
(* leaves the open tender of every project and the set of paired tenders   *)
(* as they were; and the run without the 'other' records gives every       *)
(* remaining record the same link_type and the same link partners.         *)

\* The open tender of project pid: last_tender_by_project.get(pid).
open_tender(ltp, pid) == DictGet(ltp, pid, None)

C6_OtherInResult ==
    Returned =>
        /\ \A p \in Rows :
              OtherClass(p) =>
                  /\ result[p].link_type = LT_OTHER
                  /\ result[p].related_tender_id = EmptyStr
                  /\ result[p].related_bid_id = EmptyStr
                  /\ \A q \in Rows :
                        /\ result[q].related_tender_id # result[p].row_id
                        /\ result[q].related_bid_id # result[p].row_id
        /\ SameLinksWithin({p \in Rows : ~OtherClass(p)})

C6_OtherStep ==
    (pc = "loop" /\ pos < Len(order) /\ OtherClass(order[pos + 1])) =>
        /\ \A q \in Rows :
              open_tender(last_tender_by_project', caller_df[q].project_id)
                  = open_tender(last_tender_by_project, caller_df[q].project_id)
        /\ tender_has_bid' = tender_has_bid

C6_other_does_not_participate == [](C6_OtherInResult) /\ [][C6_OtherStep]_vars

\* An 'other' record was processed between a tender and a bid of its
\* project, and the bid is linked to that tender.
C6_witness ==
    /\ Returned
    /\ \E k \in 2..(Len(order) - 1) :
          /\ TenderClass(order[k - 1]) /\ OtherClass(order[k])
          /\ BidClass(order[k + 1])
          /\ SameProject(order[k - 1], order[k])
          /\ SameProject(order[k], order[k + 1])
          /\ result[order[k + 1]].related_tender_id = result[order[k - 1]].row_id
          /\ result[order[k]].link_type = LT_OTHER

---------------------------------------------------------------------------
(* C7: a record whose publish_date is missing or does not parse is         *)
(* processed after every dated record of its project; so a dated bid is    *)
(* never linked to an undated tender, and an undated bid is linked to the  *)
(* open tender of its project, which is the last tender processed before   *)
(* it and never an earlier one than the last dated tender; every record,   *)
(* dated or not, is in the returned table with its row_id and a link_type. *)
Dated(p) == to_datetime(caller_df[p].publish_date) # NaT

DatedTenders(k) ==
    {j \in 1..Len(order) :
        SameProject(order[j], order[k]) /\ TenderClass(order[j]) /\ Dated(order[j])}

---------------------------------------------------------------------------
(* C8: links never cross projects: the record named by a bid's             *)
(* related_tender_id, and by a tender's related_bid_id, belongs to the     *)
(* same project; and for every project the run on its records alone gives  *)
(* each of them the link_type and link partners it has in the run on the   *)
(* whole table, whatever records of other projects stand between them.     *)
RowOf(rid) == CHOOSE q \in Rows : result[q].row_id = rid

C8_links_stay_within_project ==
    Returned =>
        /\ \A p \in Rows :
              /\ result[p].related_tender_id # EmptyStr =>
                    /\ \E q \in Rows : result[q].row_id = result[p].related_tender_id
                    /\ SameProject(p, RowOf(result[p].related_tender_id))
              /\ result[p].related_bid_id # EmptyStr =>
                    /\ \E q \in Rows : result[q].row_id = result[p].related_bid_id
                    /\ SameProject(p, RowOf(result[p].related_bid_id))
        /\ \A r \in Rows : SameLinksWithin({p \in Rows : SameProject(p, r)})

\* A bid of another project stands, in the input and in time, between a
\* tender and a bid of one project: it is bid-only, and the later bid is
\* linked to the tender.
C8_witness ==
    /\ Returned
    /\ \E p, q, r \in Rows :
          /\ p < q /\ q < r
          /\ TenderClass(p) /\ BidClass(q) /\ BidClass(r)
          /\ SameProject(p, r) /\ ~SameProject(p, q)
          /\ caller_df[p].publish_date = <<2024, 1, 5>>
          /\ caller_df[q].publish_date = <<2024, 3, 1>>
          /\ caller_df[r].publish_date = <<2024, 3, 1>>
          /\ result[q].link_type = LT_BID_ONLY
          /\ result[r].related_tender_id = result[p].row_id

---------------------------------------------------------------------------
(* C9: the core is additive.  assign_link returns the records of its input *)
(* in the same row order, every column of the input with its value, the    *)
(* four columns row_id, link_type, related_tender_id, related_bid_id added *)
(* and none of the helper columns of the sort; the grouping step returns   *)
(* the records of the cleaned table in the same row order, every column    *)
(* with its value, and project_id and tender_round added; neither step     *)
(* changes the table it was given.                                         *)
GroupColumns == {"project_id", "tender_round"}

C9_LinkFrame ==
    Returned =>
        /\ Len(result) = Len(caller_df)
        /\ \A p \in Rows :
              /\ DOMAIN result[p] = (DOMAIN caller_df[p]) \cup LinkColumns
              /\ \A c \in DOMAIN caller_df[p] : result[p][c] = caller_df[p][c]
              /\ (DOMAIN result[p]) \cap HelperColumns = {}

C9_GroupFrame ==
    pc # "cleaned" =>
        /\ Len(grouped_df) = Len(cleaned_df)
        /\ \A p \in 1..Len(cleaned_df) :
              /\ DOMAIN grouped_df[p] = (DOMAIN cleaned_df[p]) \cup GroupColumns
              /\ \A c \in DOMAIN cleaned_df[p] :
                    grouped_df[p][c] = cleaned_df[p][c]

C9_Step ==
    /\ cleaned_df' = cleaned_df
    /\ pc \in {"read", "loop", "linked"} => caller_df' = caller_df

C9_core_is_additive ==
    [](C9_LinkFrame /\ C9_GroupFrame) /\ [][C9_Step]_vars

\* Two cleaned records with different keys were grouped into one project,
\* the second in round 2, and assign_link has linked the second to the
\* first.
C9_witness ==
    /\ Returned
    /\ \E p, q \in 1..Len(cleaned_df) :
          /\ cleaned_df[p].project_name_core # cleaned_df[q].project_name_core
          /\ grouped_df[p].project_id = grouped_df[q].project_id
          /\ grouped_df[q].tender_round = 2
          /\ result[q].link_type = LT_LINKED
          /\ result[q].related_tender_id = result[p].row_id

---------------------------------------------------------------------------
(* C10: build_link_table outputs exactly one row for each bid-class record *)
(* that is 'linked', with its row_id as bid_row_id and its                 *)
(* related_tender_id as tender_row_id; no other record contributes a row,  *)
(* no bid_row_id appears twice, and a tender with k linked bids appears in *)
(* exactly k rows.                                                         *)
LinkedBidRows == {p \in Rows : BidClass(p) /\ result[p].link_type = LT_LINKED}

LinkRowsOfBid(rid) == {k \in 1..Len(link_table) : link_table[k].bid_row_id = rid}

LinkRowsOfTender(rid) ==
    {k \in 1..Len(link_table) : link_table[k].tender_row_id = rid}

C10_link_table_rows ==
    pc = "done" =>
        /\ Len(link_table) = Cardinality(LinkedBidRows)
        /\ \A p \in Rows :
              IF p \in LinkedBidRows
              THEN /\ Cardinality(LinkRowsOfBid(result[p].row_id)) = 1
                   /\ \A k \in LinkRowsOfBid(result[p].row_id) :
                         link_table[k].tender_row_id = result[p].related_tender_id
              ELSE LinkRowsOfBid(result[p].row_id) = {}
        /\ \A p \in Rows :
              TenderClass(p) =>
                  Cardinality(LinkRowsOfTender(result[p].row_id))
                      = Cardinality(LinkedBids(p))

\* The link table has two rows for one tender with two linked bids, while
\* the table also holds a record that is not linked.
C10_witness ==
    /\ pc = "done"
    /\ \E p \in Rows :
          /\ TenderClass(p) /\ result[p].link_type = LT_LINKED
          /\ Cardinality(LinkRowsOfTender(result[p].row_id)) = 2
    /\ \E p \in Rows : result[p].link_type # LT_LINKED

---------------------------------------------------------------------------
(* Vocabulary of the properties of the grouping *)

\* The clusters partition the positions in whole: none is empty, none holds
\* a position twice, no two share a position, and every position is in one.
IsPartition(sets, whole) ==
    /\ \A c \in 1..Len(sets) :
          /\ Members(sets[c]) # {}
          /\ sets[c].fill = Cardinality(Members(sets[c]))
    /\ \A c, d \in 1..Len(sets) :
          c # d => Members(sets[c]) \cap Members(sets[d]) = {}
    /\ UNION {Members(sets[c]) : c \in 1..Len(sets)} = whole

\* The member sets of the clusters of the bucket.
BucketSets == [c \in 1..Len(build.clusters) |-> build.clusters[c].members]

\* _cluster_cores has returned the clusters of build.customer.
Clustered ==
    \/ build.pc \in {"map", "built", "assigned"}
    \/ build.pc = "customers" /\ build.k > 0

\* The mapping is complete.
Built == build.pc \in {"built", "assigned"}

\* The cluster of all_clusters that holds position i.
ClusterOf(i) ==
    CHOOSE c \in 1..Len(build.all_clusters) : i \in Members(build.all_clusters[c])

\* The score of a pair in the cache is under the threshold.
ScoredUnder(a, b) ==
    /\ <<a, b>> \in DOMAIN build.sim_cache
    /\ RatioLess(build.sim_cache[<<a, b>>], build.threshold)

\* C11: for every customer the clusters of _cluster_cores are non-empty,
\* pairwise disjoint and together hold every distinct key of the customer
\* exactly once: during and after the greedy pass of a bucket and after each
\* merge pass for the keys of the bucket placed so far, and in the list
\* returned for all the keys of the customer; every member of a cluster is a
\* key of that customer, so no cluster holds keys of two customers.
C11_clusters_partition_customer_keys ==
    /\ build.pc \in {"greedy", "merge"} \/ (build.pc # "idle" /\ build.round = 2)
          => IsPartition(BucketSets, Range(SubSeq(build.order, 1, build.pos)))
    /\ build.pc = "merge" \/ (build.pc # "idle" /\ build.round = 2)
          => build.pos = Len(build.order)
    /\ Clustered =>
          /\ IsPartition(build.all_clusters, 1..Len(build.unique_cores))
          /\ \A i, j \in 1..Len(build.unique_cores) :
                i # j => build.unique_cores[i] # build.unique_cores[j]
          /\ \A k \in 1..Len(build.customer_cores) :
                build.customer_cores[k][1] = build.customer
                    => build.customer_cores[k][2] \in Range(build.unique_cores)
          /\ \A i \in 1..Len(build.unique_cores) :
                <<build.customer, build.unique_cores[i]>>
                    \in Range(build.customer_cores)

\* A customer's clusters are returned after a merge pass has merged two
\* clusters that the greedy pass kept apart, while another customer has
\* keys too.
C11_witness ==
    /\ build.pc = "map"
    /\ Len(build.by_customer) = 2
    /\ \E i, j \in 1..Len(build.unique_cores) :
          /\ i # j
          /\ ClusterOf(i) = ClusterOf(j)
          /\ ScoredUnder(build.unique_cores[j], build.unique_cores[i])

\* The clusters of build.customer are in the mapping.
Mapped ==
    \/ Built
    \/ build.pc = "customers" /\ build.k > 0

\* The longest member key of a cluster, the first in input order of the
\* longest.
FirstLongest(members) ==
    LET longest == {i \in members :
                       \A j \in members :
                           Len(build.unique_cores[j]) <= Len(build.unique_cores[i])}
    IN  build.unique_cores[CHOOSE i \in longest : \A j \in longest : i <= j]

\* C12: the representative from which a cluster's project_id is derived is
\* the longest member key of the final cluster, and the first of them in
\* input order when several members have the greatest length.
C12_representative_is_first_longest ==
    Mapped =>
        \A c \in 1..Len(build.all_clusters) :
            \A i \in Members(build.all_clusters[c]) :
                build.mapping[<<build.customer, build.unique_cores[i]>>]
                    = make_project_id(build.customer,
                                      FirstLongest(Members(build.all_clusters[c])))

\* The entry of the mapping for the key at position i of build.customer.
MappedId(i) == build.mapping[<<build.customer, build.unique_cores[i]>>]

\* The member at position m is a longest member of its cluster.
IsLongest(m, members) ==
    /\ m \in members
    /\ \A j \in members : Len(build.unique_cores[j]) <= Len(build.unique_cores[m])

C13_Mapping ==
    Mapped =>
        /\ \A c \in 1..Len(build.all_clusters) :
              \E m \in Members(build.all_clusters[c]) :
                  /\ IsLongest(m, Members(build.all_clusters[c]))
                  /\ \A i \in Members(build.all_clusters[c]) :
                        MappedId(i) = make_project_id(build.customer,
                                                      build.unique_cores[m])
        /\ \A i, j \in 1..Len(build.unique_cores) :
              MappedId(i) = MappedId(j) <=> ClusterOf(i) = ClusterOf(j)

C13_Rows ==
    build.pc = "assigned" =>
        /\ Len(build.project_ids) = Len(build.customer_cores)
        /\ \A r \in 1..Len(build.customer_cores) :
              /\ build.customer_cores[r] \in DOMAIN build.mapping
              /\ build.project_ids[r] = build.mapping[build.customer_cores[r]]

\* An entry of the mapping stays as it is.
C13_Step ==
    \A key \in DOMAIN build.mapping :
        /\ key \in DOMAIN build'.mapping
        /\ build'.mapping[key] = build.mapping[key]

\* C13: every record gets the project_id make_project_id(customer, r) where
\* r is the representative of the cluster that holds its key, a longest
\* member key of that cluster and the same for all its members: the entry
\* written for a key when its customer is mapped is never changed and is the
\* project_id of every row with that customer and key.  So two keys of one
\* customer have the same project_id if and only if they are in the same
\* cluster, the digest being injective.
C13_project_id_of_cluster ==
    [](C13_Mapping /\ C13_Rows) /\ [][C13_Step]_vars

\* Three rows of one customer have their project_ids: two of them have
\* different keys and the same project_id, the third has another.
C13_witness ==
    /\ build.pc = "assigned"
    /\ \E r, s, t \in 1..Len(build.customer_cores) :
          /\ build.customer_cores[r][1] = build.customer_cores[s][1]
          /\ build.customer_cores[r][1] = build.customer_cores[t][1]
          /\ build.customer_cores[r][2] # build.customer_cores[s][2]
          /\ build.project_ids[r] = build.project_ids[s]
          /\ build.project_ids[r] # build.project_ids[t]

\* C14: two records with different customers never get the same
\* project_id, also when their clusters have the same representative key
\* and the customers the same safe_customer: the string that is hashed holds
\* the customer, and it is a different string for every other customer.
C14_customer_isolation ==
    /\ Built =>
          \A key, other \in DOMAIN build.mapping :
              key[1] # other[1] =>
                  /\ build.mapping[key] # build.mapping[other]
                  /\ build.mapping[key][2] # build.mapping[other][2]
    /\ build.pc = "assigned" =>
          \A r, s \in 1..Len(build.customer_cores) :
              build.customer_cores[r][1] # build.customer_cores[s][1]
                  => build.project_ids[r] # build.project_ids[s]

\* Two rows of different customers with the same safe_customer have the
\* same key, which is the representative of its cluster for both.
C14_witness ==
    /\ build.pc = "assigned"
    /\ \E r, s \in 1..Len(build.customer_cores) :
          /\ build.customer_cores[r][1] # build.customer_cores[s][1]
          /\ build.customer_cores[r][2] = build.customer_cores[s][2]
          /\ build.project_ids[r][1] = build.project_ids[s][1]
          /\ build.project_ids[r]
                 = make_project_id(build.customer_cores[r][1],
                                   build.customer_cores[r][2])
          /\ build.project_ids[s]
                 = make_project_id(build.customer_cores[s][1],
                                   build.customer_cores[s][2])

---------------------------------------------------------------------------
(* _similarity as a state machine: calls that share one cache *)

KeyAB == <<"a", "b">>

LongPrefix00 == LongPrefix \o <<"0", "0">>

SimilarityKeys ==
    {EmptyStr, KeyA, KeyAB, KeyX, KeyY, KeyXc, LongPrefix, LongPrefix00}

\* The entries that the cache holds under other pairs of keys when the
\* calls begin: none, one less than the cap, the cap.
CacheFills == {0, SIM_CACHE_CAP - 1, SIM_CACHE_CAP}

\* Line 177: sim_cache = {}, before any call on the keys of SimilarityKeys.
InitScorer ==
    /\ LinkIdle
    /\ build = Idle
    /\ pipeline = Idle
    /\ \E others \in CacheFills :
          scorer = [pc |-> "ready", calls |-> 0, cache |-> <<>>, a |-> <<>>,
                    b |-> <<>>, r |-> <<0, 1>>, before |-> <<>>,
                    others |-> others]

\* The call _similarity(a, b, cache): its result and the cache before it.
AfterScore(a, b, before, scored) ==
    LET s == scored
    IN  [pc |-> "ready", calls |-> scorer.calls + 1, cache |-> s.cache,
         a |-> a, b |-> b, r |-> s.r, before |-> before,
         others |-> scorer.others]

Score ==
    /\ scorer.pc = "ready"
    /\ scorer.calls < MaxSimilarityCalls
    /\ \E a, b \in SimilarityKeys :
          scorer' = AfterScore(a, b, scorer.cache, similarity(a, b, scorer.cache))
    /\ UNCHANGED <<link_vars, build, pipeline>>

NextScorer == Score

SpecScorer == InitScorer /\ [][NextScorer]_vars

\* The length of the shorter key over the length of the longer.
LengthRatio(a, b) == <<Min(Len(a), Len(b)), Max(Len(a), Len(b))>>

Shorter(a, b) == IF Len(a) > Len(b) THEN b ELSE a

Longer(a, b) == IF Len(a) > Len(b) THEN a ELSE b

\* A key is empty or the lengths are too far apart.
Prefiltered(a, b) ==
    \/ a = <<>>
    \/ b = <<>>
    \/ RatioLess(LengthRatio(a, b), MIN_LENGTH_RATIO)

\* The shorter key is in the longer and at least 0.8 of its length.
Contained(a, b) ==
    /\ ~Prefiltered(a, b)
    /\ IsSubstring(Shorter(a, b), Longer(a, b))
    /\ ~RatioLess(LengthRatio(a, b), <<8, 10>>)

Called == scorer.pc = "ready" /\ scorer.calls > 0

\* C16: _similarity(a, b) is 0 when a key is empty or the shorter key has
\* less than half the length of the longer, and then the cache is neither
\* read nor written, so that the cache never holds such a pair; it is
\* exactly 0.9 when the shorter key is in the longer and has at least 0.8 of
\* its length, two equal keys included; the result is always between 0
\* and 1.
C16_similarity_values ==
    Called =>
        /\ Prefiltered(scorer.a, scorer.b) =>
              /\ scorer.r[1] = 0
              /\ scorer.cache = scorer.before
        /\ Contained(scorer.a, scorer.b) => scorer.r = <<9, 10>>
        /\ scorer.r[2] > 0
        /\ 0 <= scorer.r[1]
        /\ scorer.r[1] <= scorer.r[2]
        /\ \A key \in DOMAIN scorer.cache : ~Prefiltered(key[1], key[2])

\* Two calls have been made: the first was filtered out and left the cache
\* empty, the second has two equal keys that are not empty.
C16_witness ==
    /\ Called
    /\ scorer.a = scorer.b
    /\ scorer.a # <<>>
    /\ scorer.r = <<9, 10>>
    /\ scorer.calls = 2
    /\ scorer.before = <<>>

\* The keys at the positions of a bucket.
KeysOf(bucket) == {build.unique_cores[i] : i \in Range(bucket)}

\* The rows of build.customer whose key is in the bucket.
RowsOfBucket(bucket) ==
    {r \in 1..Len(build.customer_cores) :
        /\ build.customer_cores[r][1] = build.customer
        /\ build.customer_cores[r][2] \in KeysOf(bucket)}

\* The clusters of all_clusters whose members are in the bucket.
ClustersIn(bucket) ==
    {c \in 1..Len(build.all_clusters) :
        Members(build.all_clusters[c]) \subseteq Range(bucket)}

\* C17, as stated: a bucket with more than 80 of a customer's keys, counted
\* with their repetitions, gives every one of them a singleton cluster, so
\* 81 identical keys give 81 clusters.
C17_bucket_over_cap_by_rows ==
    Clustered =>
        \A bucket \in Range(Buckets(build.unique_cores)) :
            Cardinality(RowsOfBucket(bucket)) > MAX_BUCKET_SIZE_FOR_SIMILARITY
                => Cardinality(ClustersIn(bucket))
                       = Cardinality(RowsOfBucket(bucket))

\* C17, amended: a bucket with more than 80 distinct keys is not clustered
\* by similarity at all: every key of it is a singleton cluster and no key
\* of it is passed to the scorer; a bucket of 2 to 80 distinct keys is
\* clustered by similarity: every key of it but the first in order is
\* passed to the scorer.  81 distinct keys in one bucket give 81 clusters.
C17_bucket_over_cap ==
    Clustered =>
        \A k \in 1..Len(build.buckets) :
            IF Len(build.buckets[k]) > MAX_BUCKET_SIZE_FOR_SIMILARITY
            THEN /\ \A i \in Range(build.buckets[k]) :
                       Members(build.all_clusters[ClusterOf(i)]) = {i}
                 /\ \A pair \in build.calls :
                       /\ pair[1] \notin KeysOf(build.buckets[k])
                       /\ pair[2] \notin KeysOf(build.buckets[k])
            ELSE \A i \in Range(build.buckets[k]) :
                     \/ \E pair \in build.calls : pair[1] = build.unique_cores[i]
                     \/ \A j \in Range(build.buckets[k]) :
                           \/ Len(build.unique_cores[j]) < Len(build.unique_cores[i])
                           \/ Len(build.unique_cores[j]) = Len(build.unique_cores[i])
                              /\ i <= j

\* The clusters of a customer with 81 distinct keys in one bucket are
\* returned: 81 clusters.
C17_witness ==
    /\ build.pc = "map"
    /\ Len(build.buckets) = 1
    /\ Len(build.buckets[1]) = MAX_BUCKET_SIZE_FOR_SIMILARITY + 1
    /\ Len(build.all_clusters) = MAX_BUCKET_SIZE_FOR_SIMILARITY + 1

\* The keys of build.customer are being clustered or have been.
InCustomer == build.pc # "idle" /\ build.unique_cores # <<>>

\* min(8, the length of the shortest key of the customer that is not empty).
BucketPrefixLen ==
    LET lengths == {Len(build.unique_cores[i]) :
                      i \in 1..Len(build.unique_cores)} \ {0}
    IN  IF lengths = {} THEN 8 ELSE Min(8, MinOf(lengths))

SamePrefix(a, b, p) == Take(a, p) = Take(b, p)

\* C18 for the prefix length p.
C18_Buckets(p) ==
    /\ \A pair \in build.calls : SamePrefix(pair[1], pair[2], p)
    /\ \A k, m \in 1..Len(build.buckets) :
          \A i \in Range(build.buckets[k]), j \in Range(build.buckets[m]) :
              k = m <=> SamePrefix(build.unique_cores[i], build.unique_cores[j], p)
    /\ build.pc \in {"greedy", "merge"} =>
          \A c \in 1..Len(build.clusters) :
              \A i, j \in Members(build.clusters[c].members) :
                  SamePrefix(build.unique_cores[i], build.unique_cores[j], p)
    /\ \A c \in 1..Len(build.all_clusters) :
          \A i, j \in Members(build.all_clusters[c]) :
              SamePrefix(build.unique_cores[i], build.unique_cores[j], p)

\* C18: the keys of a customer are bucketed by their first p characters,
\* p = min(8, length of the customer's shortest key that is not empty): two
\* keys are in the same bucket exactly when these characters are the same,
\* and two keys for which they differ are never passed together to the
\* scorer and are never in the same cluster, in the greedy pass, in the
\* merge passes and in the clusters returned.
C18_prefix_buckets == InCustomer => C18_Buckets(BucketPrefixLen)

\* The clusters of a customer are returned; one of its keys is held by
\* another of at most 1.25 times its length whose first character is
\* different, and the scorer has been called for a third key.
C18_witness ==
    /\ build.pc = "map"
    /\ build.calls # {}
    /\ \E i, j \in 1..Len(build.unique_cores) :
          /\ Len(build.unique_cores[i]) < Len(build.unique_cores[j])
          /\ Contained(build.unique_cores[i], build.unique_cores[j])
          /\ build.unique_cores[i][1] # build.unique_cores[j][1]
          /\ ClusterOf(i) # ClusterOf(j)


\* _cluster_cores has just returned the clusters of build.customer.
Returning == build.pc = "map"

\* The representative of every cluster returned, in the order of the
\* clusters (line 186).
Representatives ==
    [c \in 1..Len(build.all_clusters) |->
        Representative(build.unique_cores, build.all_clusters[c])]

\* _cluster_cores on the representatives, with a cache of its own.
Reclustered == cluster_cores(Representatives, build.threshold, <<>>).clusters

\* C19: when _cluster_cores has returned the clusters of a customer,
\* clustering the representatives of these clusters again gives one cluster
\* for each representative, so that two keys of the customer have their
\* representatives in the same cluster of the second clustering exactly when
\* the first clustering put them in the same cluster.
C19_reclustering_keeps_grouping ==
    Returning =>
        LET again == Reclustered
            of(c) == CHOOSE d \in 1..Len(again) : c \in Members(again[d])
        IN  /\ Len(again) = Len(build.all_clusters)
            /\ \A d \in 1..Len(again) : Cardinality(Members(again[d])) = 1
            /\ \A i, j \in 1..Len(build.unique_cores) :
                  ClusterOf(i) = ClusterOf(j) <=> of(ClusterOf(i)) = of(ClusterOf(j))


\* The entries that a cache holds for the two keys in either order.
EntriesOf(cache, a, b) == {<<a, b>>, <<b, a>>} \cap DOMAIN cache

\* C20: the results of _similarity are stored under the unordered pair of
\* the keys: when a call is made with two keys that are not empty and the
\* cache holds a result for them in either order, the call returns that
\* result and leaves the cache as it was, keys of the same length included;
\* the cache never holds one entry for (a, b) and another for (b, a).
C20_memoized_by_unordered_pair ==
    Called =>
        /\ \A key \in EntriesOf(scorer.before, scorer.a, scorer.b) :
              /\ scorer.r = scorer.before[key]
              /\ scorer.cache = scorer.before
        /\ \A key \in DOMAIN scorer.cache :
              key[1] # key[2] => <<key[2], key[1]>> \notin DOMAIN scorer.cache


\* The cache holds as many entries as the cap.
Full(cache) == CacheLen(cache) = SIM_CACHE_CAP

\* The value of _similarity(a, b) computed without a cache.
Uncached(a, b) == similarity(a, b, <<>>).r

\* C21: after any sequence of calls of _similarity on one cache the cache
\* holds at most the cap of 50000 entries; a call keeps every entry that
\* the cache held before it, with its value; and a call on a full cache
\* returns the value that the keys score and leaves the cache as it was.
C21_cache_cap_first_come_stays ==
    Called =>
        /\ CacheLen(scorer.cache) <= SIM_CACHE_CAP
        /\ \A key \in DOMAIN scorer.before :
              /\ key \in DOMAIN scorer.cache
              /\ scorer.cache[key] = scorer.before[key]
        /\ Full(scorer.before) =>
              /\ scorer.cache = scorer.before
              /\ scorer.r = Uncached(scorer.a, scorer.b)

\* The first call stored the entry that filled the cache; the second call
\* scored a pair that the full cache does not hold, over 0, and did not
\* store it.
C21_witness ==
    /\ Called
    /\ Full(scorer.before)
    /\ DOMAIN scorer.before # {}
    /\ EntriesOf(scorer.before, scorer.a, scorer.b) = {}
    /\ scorer.r[1] > 0
    /\ scorer.cache = scorer.before


\* The pair of keys was passed to _similarity, in this order or the other,
\* by the call of _cluster_cores for build.customer.
ScoredForCustomer(key) ==
    key \in build.calls \/ <<key[2], key[1]>> \in build.calls

\* The keys of build.customer are being clustered or mapped.
Processing == build.pc \in {"buckets", "greedy", "merge", "map"}

\* C22: customers are independent units of work: while the keys of one
\* customer are clustered and mapped, the cache that the calls of
\* _similarity read and write holds no entry that was written while another
\* customer was processed.
C22_no_state_across_customers ==
    Processing =>
        \A key \in DOMAIN build.sim_cache : ScoredForCustomer(key)


\* The canonical key of row p of the cleaned table.
CanonicalKey(p) ==
    canonical_core_for_grouping(FillNaStr(cleaned_df[p].customer),
                                FillNaStr(cleaned_df[p].project_name_core))

\* C23: two records of the same customer that have the same canonical key,
\* the empty key included, get the same project_id.
C23_same_key_same_project ==
    pc = "grouped" =>
        \A p, q \in 1..Len(cleaned_df) :
            /\ cleaned_df[p].customer = cleaned_df[q].customer
            /\ CanonicalKey(p) = CanonicalKey(q)
            => grouped_df[p].project_id = grouped_df[q].project_id


---------------------------------------------------------------------------
(* run_pipeline as a state machine: the stages and the files on disk *)

DATA_DIR == "data"

CLEANED_DIR == "data_cleaned"

GROUPED_DIR == "data_grouped"

LINKED_DIR == "data_linked"

ANALYSIS_DIR == "data_analysis"

QUALITY_DIR == "data_quality"

INTERMEDIATE_DIRS ==
    {CLEANED_DIR, GROUPED_DIR, LINKED_DIR, ANALYSIS_DIR, QUALITY_DIR}

\* A file is <<directory, name>>.  Of the files that a stage writes the one
\* that the next stage reads is kept, and of data/ whether it holds a
\* workbook.
XlsxFile == <<DATA_DIR, "*.xlsx">>

CleanedFile == <<CLEANED_DIR, "tender_cleaned.csv">>

GroupedFile == <<GROUPED_DIR, "tender_grouped.csv">>

LinkedFile == <<LINKED_DIR, "tender_linked.csv">>

AnalysisFile == <<ANALYSIS_DIR, "tender_analysis.csv">>

ReportFile == <<QUALITY_DIR, "report.md">>

PipelineFiles ==
    {XlsxFile, CleanedFile, GroupedFile, LinkedFile, AnalysisFile, ReportFile}

\* The states of the disk before a run: every directory is absent, empty or
\* holds its file.
Disks ==
    {d \in [dirs : SUBSET ({DATA_DIR} \cup INTERMEDIATE_DIRS),
            files : SUBSET PipelineFiles] :
        \A f \in d.files : f[1] \in d.dirs}

\* main(): run_pipeline(do_clean) is about to run.
InitPipeline ==
    /\ LinkIdle
    /\ build = Idle
    /\ scorer = Idle
    /\ \E d \in Disks, do_clean \in BOOLEAN :
          pipeline = [pc |-> "run_pipeline", do_clean |-> do_clean,
                      dirs |-> d.dirs, files |-> d.files, printed |-> <<>>,
                      wrote |-> {}, raised |-> <<>>]

\* print(...) of a stage that does not find its input: the scripts that the
\* message tells to run first.
Printed(p, scripts) == [p EXCEPT !.printed = Append(@, scripts)]

\* os.makedirs(dir, exist_ok=True) and the file written into it.
Written(p, stage, file) ==
    [p EXCEPT !.dirs = @ \cup {file[1]}, !.files = @ \cup {file},
              !.wrote = @ \cup {stage}]

\* An exception leaves the stage and run_pipeline.
Raised(p, message) == [p EXCEPT !.pc = "raised", !.raised = message]

\* run_pipeline.py, lines 23-37: clean_intermediate() when do_clean.
clean_intermediate ==
    /\ pipeline.pc = "run_pipeline"
    /\ pipeline' =
          IF pipeline.do_clean
          THEN [pipeline EXCEPT
                   !.dirs = @ \ INTERMEDIATE_DIRS,
                   !.files = {f \in @ : f[1] \notin INTERMEDIATE_DIRS},
                   !.pc = "run_clean"]
          ELSE [pipeline EXCEPT !.pc = "run_clean"]
    /\ UNCHANGED <<link_vars, build, scorer>>

\* run_clean.run(), lines 28-60: the output directory is made before data/
\* is listed; os.listdir raises when data/ is absent.
run_clean ==
    /\ pipeline.pc = "run_clean"
    /\ LET made == [pipeline EXCEPT !.dirs = @ \cup {CLEANED_DIR}]
       IN  pipeline' =
              IF DATA_DIR \notin pipeline.dirs
              THEN Raised(made, {"FileNotFoundError"})
              ELSE IF XlsxFile \notin pipeline.files
              THEN [Printed(made, {}) EXCEPT !.pc = "run_group"]
              ELSE [Written(made, "run_clean", CleanedFile) EXCEPT
                       !.pc = "run_group"]
    /\ UNCHANGED <<link_vars, build, scorer>>

\* run_group.run(), lines 17-35.
run_group ==
    /\ pipeline.pc = "run_group"
    /\ pipeline' =
          [(IF CleanedFile \notin pipeline.files
            THEN Printed(pipeline, {"run_clean.py"})
            ELSE Written(pipeline, "run_group", GroupedFile))
           EXCEPT !.pc = "run_link"]
    /\ UNCHANGED <<link_vars, build, scorer>>

\* run_link.run(), lines 18-41.
run_link ==
    /\ pipeline.pc = "run_link"
    /\ pipeline' =
          [(IF GroupedFile \notin pipeline.files
            THEN Printed(pipeline, {"run_group.py"})
            ELSE Written(pipeline, "run_link", LinkedFile))
           EXCEPT !.pc = "run_analysis"]
    /\ UNCHANGED <<link_vars, build, scorer>>

\* run_analysis.run(), lines 16-31.
run_analysis ==
    /\ pipeline.pc = "run_analysis"
    /\ pipeline' =
          [(IF LinkedFile \notin pipeline.files
            THEN Printed(pipeline, {"run_link.py"})
            ELSE Written(pipeline, "run_analysis", AnalysisFile))
           EXCEPT !.pc = "run_quality_report"]
    /\ UNCHANGED <<link_vars, build, scorer>>

\* run_quality_report.run(), lines 41-49, with load_latest_layer, lines
\* 30-38: the linked table, else the grouped table, else FileNotFoundError.
run_quality_report ==
    /\ pipeline.pc = "run_quality_report"
    /\ pipeline' =
          IF LinkedFile \in pipeline.files \/ GroupedFile \in pipeline.files
          THEN [Written(pipeline, "run_quality_report", ReportFile) EXCEPT
                   !.pc = "done"]
          ELSE Raised(pipeline, {"run_link.py", "run_group.py"})
    /\ UNCHANGED <<link_vars, build, scorer>>

NextPipeline ==
    \/ clean_intermediate
    \/ run_clean
    \/ run_group
    \/ run_link
    \/ run_analysis
    \/ run_quality_report

SpecPipeline == InitPipeline /\ [][NextPipeline]_vars

\* The stages in the order of run_pipeline, and what they read.
Stages == <<"run_clean", "run_group", "run_link", "run_analysis",
            "run_quality_report">>

InputOf(stage) ==
    CASE stage = "run_group" -> {CleanedFile}
      [] stage = "run_link" -> {GroupedFile}
      [] stage = "run_analysis" -> {LinkedFile}
      [] stage = "run_quality_report" -> {LinkedFile, GroupedFile}

\* The stage is about to run and finds none of its input files.
InputMissing(stage) ==
    /\ pipeline.pc = stage
    /\ InputOf(stage) \cap pipeline.files = {}

\* A stage that does not find its input prints a message that names a
\* script to run first, raises nothing and leaves the disk as it is.
C24_Step ==
    \A k \in 2..Len(Stages) :
        InputMissing(Stages[k]) /\ pipeline' # pipeline =>
            /\ pipeline'.pc # "raised"
            /\ pipeline'.dirs = pipeline.dirs
            /\ pipeline'.files = pipeline.files
            /\ Len(pipeline'.printed) = Len(pipeline.printed) + 1
            /\ pipeline'.printed[Len(pipeline'.printed)] # {}

\* In a run that cleaned the intermediate directories a stage has written
\* output only if every stage before it has.
C24_Run ==
    pipeline.pc # "idle" /\ pipeline.do_clean =>
        \A k, m \in 1..Len(Stages) :
            k < m /\ Stages[m] \in pipeline.wrote => Stages[k] \in pipeline.wrote

\* C24: a stage (group, link, analysis, quality report) whose input file is
\* missing reports a message that names the stage to run first, raises no
\* error and creates or changes no file or directory; and in a run of
\* run_pipeline that cleans the intermediate directories first, when a stage
\* writes no output no later stage writes output.
C24_missing_input_aborts_cleanly == [](C24_Run) /\ [][C24_Step]_vars


\* The key that the next iteration of the greedy pass places, the clusters
\* whose representative scores at or over the threshold with it, and the
\* first of them.
GreedyKey == build.order[build.pos + 1]

ScoreWith(idx, c) ==
    Uncached(build.unique_cores[idx],
             build.unique_cores[build.clusters[c].rep])

Matching(idx) ==
    {c \in 1..Len(build.clusters) : ~RatioLess(ScoreWith(idx, c), build.threshold)}

\* The clusters that the greedy pass tries for the key: all of them, or
\* those up to the first that matches.
Tried(idx) ==
    IF Matching(idx) = {} THEN 1..Len(build.clusters)
    ELSE 1..MinOf(Matching(idx))

\* The order of the bucket: longer keys first, keys of the same length in
\* input order.
C25_Order ==
    build.pc \in {"greedy", "merge"} =>
        \A i, j \in 1..Len(build.order) :
            i < j =>
                \/ Len(build.unique_cores[build.order[i]])
                       > Len(build.unique_cores[build.order[j]])
                \/ /\ Len(build.unique_cores[build.order[i]])
                          = Len(build.unique_cores[build.order[j]])
                   /\ build.order[i] < build.order[j]

\* One iteration of the greedy pass.
C25_Step ==
    build.pc = "greedy" /\ build' # build =>
        LET idx == GreedyKey
            old == build.clusters
            new == build'.clusters
        IN  /\ build'.pos = build.pos + 1
            /\ \A c \in 1..Len(old) : new[c].rep = old[c].rep
            /\ IF Matching(idx) = {}
               THEN /\ Len(new) = Len(old) + 1
                    /\ new[Len(new)].rep = idx
                    /\ Members(new[Len(new)].members) = {idx}
                    /\ \A c \in 1..Len(old) :
                          Members(new[c].members) = Members(old[c].members)
               ELSE /\ Len(new) = Len(old)
                    /\ \A c \in 1..Len(old) :
                          Members(new[c].members)
                              = Members(old[c].members)
                                    \cup (IF c = MinOf(Matching(idx))
                                          THEN {idx} ELSE {})
            /\ build'.calls \ build.calls
                   \subseteq {<<build.unique_cores[idx],
                                build.unique_cores[old[c].rep]>> : c \in Tried(idx)}

\* C25: in a bucket that is not over the cap the keys are placed longest
\* first, keys of the same length in input order; a key joins the first
\* cluster, in the order of creation, whose representative scores at or
\* over the threshold with it, also when the representative of a later
\* cluster scores higher, and founds a cluster of which it is the
\* representative when there is none; it is passed to the scorer only with
\* representatives of clusters, and the representative of a cluster stays
\* the key that founded it.
C25_greedy_first_match == [](C25_Order) /\ [][C25_Step]_vars

\* A key has joined the first cluster whose representative it matches while
\* the representative of a later cluster scores higher with it.
C25_witness ==
    /\ build.pc \in {"greedy", "merge"}
    /\ build.pos > 0
    /\ \E c, d \in 1..Len(build.clusters) :
          /\ c < d
          /\ build.order[build.pos] \in Members(build.clusters[c].members)
          /\ build.order[build.pos] # build.clusters[c].rep
          /\ build.order[build.pos] # build.clusters[d].rep
          /\ RatioLess(ScoreWith(build.order[build.pos], c),
                       ScoreWith(build.order[build.pos], d))


\* The score of the representatives of clusters i and j of a list of
\* clusters, as a merge pass takes it.
RepScore(clusters, i, j) ==
    Uncached(build.unique_cores[clusters[i].rep],
             build.unique_cores[clusters[j].rep])

\* Cluster c of the later list holds the keys of cluster i of the earlier.
Holds(new, c, old, i) ==
    Members(old[i].members) \subseteq Members(new[c].members)

\* One merge pass.
C26_Step ==
    build.pc = "merge" /\ build' # build =>
        LET old == build.clusters
            new == build'.clusters
        IN  /\ build.round < 2
            /\ build'.round = build.round + 1
            /\ build'.pc = "merge" <=> build'.round < 2
            /\ \A i, j \in 1..Len(old) :
                  i < j /\ ~RatioLess(RepScore(old, i, j), build.threshold) =>
                      \E c \in 1..Len(new) :
                          Holds(new, c, old, i) /\ Holds(new, c, old, j)
            /\ \A c \in 1..Len(new) :
                  \E i \in 1..Len(old) :
                      /\ new[c].rep = old[i].rep
                      /\ \A k \in 1..Len(old) : Holds(new, c, old, k) => i <= k
            /\ UNION {Members(new[c].members) : c \in 1..Len(new)}
                   = UNION {Members(old[i].members) : i \in 1..Len(old)}

\* C26: after the greedy pass of a bucket there are two merge passes; a pass
\* puts every two clusters whose representatives score at or over the
\* threshold into one cluster, a cluster after a pass has the
\* representative of the earliest cluster it holds, no key is lost, and
\* the passes end.
C26_merge_pass_unions_all == [][C26_Step]_vars


---------------------------------------------------------------------------
\* Row p has the smaller tender_round, or the same and the earlier position.
RoundThenRow(p, q) ==
    \/ caller_df[p].tender_round < caller_df[q].tender_round
    \/ /\ caller_df[p].tender_round = caller_df[q].tender_round
       /\ p < q

\* Row p comes before row q by publish_date (a record without a date after
\* the dated ones), then tender_round, then position.
DateRoundRow(p, q) ==
    \/ DateLess(to_datetime(caller_df[p].publish_date),
                to_datetime(caller_df[q].publish_date))
    \/ /\ to_datetime(caller_df[p].publish_date)
              = to_datetime(caller_df[q].publish_date)
       /\ RoundThenRow(p, q)

SameDate(p, q) == caller_df[p].publish_date = caller_df[q].publish_date

Paired(tender, bid) ==
    result[bid].related_tender_id = result[tender].row_id

\* A tender-class record of the project of p and q that is processed after
\* p and before q.
TenderBetween(p, q) ==
    \E r \in Rows :
        /\ TenderClass(r) /\ SameProject(r, q)
        /\ OrderPos(p) < OrderPos(r) /\ OrderPos(r) < OrderPos(q)

C27_Order ==
    pc \in {"loop", "linked"} =>
        \A p, q \in Rows :
            (p # q /\ SameProject(p, q)) =>
                (OrderPos(p) < OrderPos(q) <=> DateRoundRow(p, q))

\* C27 as stated: the records of a project are processed by ascending
\* publish_date, then ascending tender_round, then row position; a tender
\* and a bid of one project with the same publish_date are paired if and
\* only if the tender has the smaller tender_round, or the same
\* tender_round and an earlier row position.
C27_same_date_pairing ==
    /\ C27_Order
    /\ Returned =>
          \A p, q \in Rows :
              (TenderClass(p) /\ BidClass(q) /\ SameProject(p, q) /\ SameDate(p, q))
                  => (Paired(p, q) <=> RoundThenRow(p, q))

\* C27, amended: the records of a project are processed by ascending
\* publish_date, then ascending tender_round, then row position; a tender
\* and a bid of one project with the same publish_date are paired if and
\* only if the tender has the smaller tender_round, or the same
\* tender_round and an earlier row position, and no other tender of the
\* project is processed between them.
C27_same_date_pairing_last_tender ==
    /\ C27_Order
    /\ Returned =>
          \A p, q \in Rows :
              (TenderClass(p) /\ BidClass(q) /\ SameProject(p, q) /\ SameDate(p, q))
                  => (Paired(p, q) <=> (RoundThenRow(p, q) /\ ~TenderBetween(p, q)))

\* A bid of round 2 stands before a tender of round 1 of its project with
\* the same publish_date in the input, and is paired with it.
C27_witness ==
    /\ Returned
    /\ \E p, q \in Rows :
          /\ q < p
          /\ TenderClass(p) /\ BidClass(q) /\ SameProject(p, q) /\ SameDate(p, q)
          /\ caller_df[p].tender_round < caller_df[q].tender_round
          /\ Paired(p, q)


---------------------------------------------------------------------------
\* The score of any two keys of the bucket does not depend on the order of
\* the arguments.
SymmetricScores ==
    \A i, j \in Range(build.order) :
        i < j => Uncached(build.unique_cores[i], build.unique_cores[j])
                     = Uncached(build.unique_cores[j], build.unique_cores[i])

C28_Compared ==
    build.pc = "merge" =>
        \A c, d \in 1..Len(build.clusters) :
            c < d =>
                /\ <<build.unique_cores[build.clusters[d].rep],
                     build.unique_cores[build.clusters[c].rep]>> \in build.calls
                /\ RatioLess(RepScore(build.clusters, d, c), build.threshold)

C28_Members ==
    (build.pc = "merge" /\ SymmetricScores) =>
        \A c \in 1..Len(build.clusters) :
            \A k \in Members(build.clusters[c].members) \ {build.clusters[c].rep} :
                ~RatioLess(ScoreWith(k, c), build.threshold)

C28_Step ==
    (build.pc = "merge" /\ build' # build /\ SymmetricScores) =>
        /\ build'.clusters = build.clusters
        /\ build'.round = 2 =>
              /\ Len(build'.all_clusters) = Len(build.all_clusters) + Len(build.clusters)
              /\ \A c \in 1..Len(build.clusters) :
                    build'.all_clusters[Len(build.all_clusters) + c]
                        = build.clusters[c].members

\* C28: when the greedy pass of a bucket has ended, the representatives of
\* every two clusters have been passed to the scorer, the later one first,
\* and scored under the threshold; when the score of every two keys of the
\* bucket is the same in both orders, a merge pass leaves the clusters as they
\* are, the clusters returned for the bucket are those of the greedy pass,
\* and every key of a cluster other than its representative scores at or
\* over the threshold with the representative.
C28_symmetric_scores_no_merge ==
    [](C28_Compared /\ C28_Members) /\ [][C28_Step]_vars

\* A merge pass has run on two or more clusters of a bucket whose keys
\* score the same in both orders, one of the clusters with a second key.
C28_witness ==
    /\ build.pc = "merge" /\ build.round = 1
    /\ Len(build.clusters) >= 2
    /\ SymmetricScores
    /\ \E c \in 1..Len(build.clusters) :
          Members(build.clusters[c].members) # {build.clusters[c].rep}


---------------------------------------------------------------------------
\* The rows of the returned table whose row_id is rid.
RowsWithId(rid) == {q \in Rows : result[q].row_id = rid}

\* C29: in the returned table the row_ids are pairwise distinct and every
\* related id that is not empty is the row_id of a record; a bid names at
\* most one tender; the record named by a tender's related_bid_id is a
\* bid-class record that is 'linked' and names the tender in its
\* related_tender_id; the record named by a bid's related_tender_id is a
\* tender-class record that is 'linked' and has a related_bid_id; and a
\* record that is 'tender-only', 'bid-only' or 'other' has both related ids
\* empty.
C29_link_references_consistent ==
    Returned =>
        /\ \A p, q \in Rows : p # q => result[p].row_id # result[q].row_id
        /\ \A p \in Rows :
              /\ result[p].related_tender_id # EmptyStr =>
                    Cardinality(RowsWithId(result[p].related_tender_id)) = 1
              /\ result[p].related_bid_id # EmptyStr =>
                    Cardinality(RowsWithId(result[p].related_bid_id)) = 1
        /\ \A p \in Rows :
              BidClass(p) =>
                  Cardinality({q \in Rows : TenderClass(q) /\ Paired(q, p)}) <= 1
        /\ \A t \in Rows :
              (TenderClass(t) /\ result[t].related_bid_id # EmptyStr) =>
                  \A b \in RowsWithId(result[t].related_bid_id) :
                      /\ BidClass(b)
                      /\ result[b].link_type = LT_LINKED
                      /\ result[b].related_tender_id = result[t].row_id
        /\ \A b \in Rows :
              (BidClass(b) /\ result[b].related_tender_id # EmptyStr) =>
                  \A t \in RowsWithId(result[b].related_tender_id) :
                      /\ TenderClass(t)
                      /\ result[t].link_type = LT_LINKED
                      /\ result[t].related_bid_id # EmptyStr
        /\ \A p \in Rows :
              result[p].link_type \in {LT_TENDER_ONLY, LT_BID_ONLY, LT_OTHER} =>
                  /\ result[p].related_tender_id = EmptyStr
                  /\ result[p].related_bid_id = EmptyStr

\* The returned table holds a tender with two bids linked to it, whose
\* related_bid_id names one of them, and a record that is bid-only or
\* tender-only.
C29_witness ==
    /\ Returned
    /\ \E t, b1, b2 \in Rows :
          /\ b1 # b2 /\ TenderClass(t) /\ BidClass(b1) /\ BidClass(b2)
          /\ Paired(t, b1) /\ Paired(t, b2)
          /\ result[t].related_bid_id \in {result[b1].row_id, result[b2].row_id}
    /\ \E p \in Rows : result[p].link_type \in {LT_BID_ONLY, LT_TENDER_ONLY}


---------------------------------------------------------------------------
\* The pairs (customer, key) of the rows.
InputPairs == Range(build.customer_cores)

\* The pairs of the customers that have been mapped.
MappedPairs ==
    {pair \in InputPairs :
        \E j \in 1..build.k : build.by_customer[j] = pair[1]}

\* The project_id that line 236 computes for a row when the mapping has no
\* entry for its pair.
Fallback(pair) == make_project_id(pair[1], pair[2])

C30_Entries ==
    /\ build.pc \in {"customers", "built", "assigned"} =>
          DOMAIN build.mapping = MappedPairs
    /\ build.pc \in {"built", "assigned"} =>
          DOMAIN build.mapping = InputPairs

C30_Rows ==
    build.pc = "assigned" =>
        \A r \in 1..Len(build.customer_cores) :
            /\ DictGet(build.mapping, build.customer_cores[r], None) # None
            /\ build.project_ids[r]
                   = DictGet(build.mapping, build.customer_cores[r], None)

\* A customer is mapped: every key of the customer gets the project_id of
\* the representative of the cluster that holds it.
C30_Step ==
    (build.pc = "map" /\ build' # build) =>
        \A i \in 1..Len(build.unique_cores) :
            /\ \E c \in 1..Len(build.all_clusters) :
                  i \in Members(build.all_clusters[c])
            /\ <<build.customer, build.unique_cores[i]>> \in DOMAIN build'.mapping
            /\ build'.mapping[<<build.customer, build.unique_cores[i]>>]
                   = make_project_id(
                         build.customer,
                         Representative(build.unique_cores,
                                        build.all_clusters[ClusterOf(i)]))

\* C30: the mapping that _build_customer_core_to_project_id returns has an
\* entry for every pair (customer, key) of the input, and for no other
\* pair; the entry of a key is the project_id of the representative of the
\* cluster that holds the key; and the project_id of every row is the
\* entry of its pair, never the value that assign_project_ids computes
\* from the row's own key for a pair without entry.
C30_mapping_covers_every_pair ==
    [](C30_Entries /\ C30_Rows) /\ [][C30_Step]_vars

\* A row has a project_id that is not the one of its own key: the
\* representative of its cluster is another key.
C30_witness ==
    /\ build.pc = "assigned"
    /\ \E r \in 1..Len(build.customer_cores) :
          /\ build.project_ids[r] # Fallback(build.customer_cores[r])
          /\ build.project_ids[r] = build.mapping[build.customer_cores[r]]

====
